---- MODULE Spec2Model ----
(***************************************************************************)
(* Model of the Java performance radar: the symbol table and call graph    *)
(* (symbol_table.rs, taint.rs), the syntax-tree rule engine with its       *)
(* suppression filter (scanner/tree_sitter_java.rs) and the parallel       *)
(* directory scan (ast_engine.rs).                                         *)
(*                                                                         *)
(* Strings are sequences of one-character strings, so that starts_with,    *)
(* ends_with, contains and the ASCII case conversions are computed.        *)
(***************************************************************************)
EXTENDS Integers, Sequences, FiniteSets, TLC

VARIABLES
    symtab,         \* the SymbolTable under construction (classes, fields)
    daoQuery,       \* Some(the last is_dao_call and its result), None after a registration
    graph,          \* the CallGraph under construction
    traceQuery,     \* Some(the last trace_to_layer call and its paths), None after a change
    chainReports,   \* Some(the reports of detect_n_plus_one_chains), None after a change
    source,         \* the Java source file given to the analyzer: its path and lines
    context,        \* the symbol table the analyzer is given: Some(table) or None
    analysis,       \* Some(the issues before the filter, the issues returned), None before
    refiltered,     \* Some(the returned issues filtered once more), None before
    scanned,        \* Some(the issues scan_source_code lists in its report), None before
    pool,           \* the partial (Symbol Table, Call Graph) pairs not yet merged together
    indexed,        \* what the indexed files held: their number, calls and class names
    scanRoot,       \* radar_scan: whether WalkDir can list code_path: "listed", "missing"
    scanBroken,     \* the ids of the rules whose query does not compile in this build
    scanEntries,    \* radar_scan: the files WalkDir collected
    scanPc,         \* radar_scan: per entry "pending", "locking", "locked" or "done"
    scanLocal,      \* radar_scan: per entry the local_issues of its closure
    scanContext,    \* radar_scan: per entry the analyzer that ran: context, thread,
                    \* compiled catalog and parser
    scanWorker,     \* radar_scan: per pool thread the entry whose closure it runs, or 0
    scanParser,     \* per pool thread its JAVA_PARSER cell and the parsers it constructed
    scanCompiles,   \* radar_scan: the number of times the rule catalog was compiled
    scanLock,       \* radar_scan: the thread holding the mutex of the issues, or 0
    scanAppended,   \* radar_scan: per pool thread how much of its list extend has pushed
    scanIssues,     \* radar_scan: the issues behind the mutex
    scanReport,     \* radar_scan: Some(the result), None while the scan runs
    typeA,          \* a TypeInfo under construction: add_annotation called in one order
    typeB,          \* a second TypeInfo of the same declaration, annotated in its own order
    methodTable,    \* the methods and method_index maps of a SymbolTable
    registered,     \* the register_method calls made so far, in their order
    methodQuery,    \* Some(the last method lookup and its result), None before
    parsedFile,     \* the declaration and the fields of the file given to the extractor
    extracted,      \* Some(the (TypeInfo, bindings) pair extract_symbols returned), None before
    traceRun,       \* Some(the trace_to_layer call in progress: its frames, path, visited set
                    \* and result), None while no call is running
    handled         \* Some(what NPlusOneHandler.handle returned for the loop call of each
                    \* line of the source), None before

DaoVars == <<symtab, daoQuery>>

TraceVars == <<graph, traceQuery, chainReports>>

AnalyzeVars == <<source, context, analysis, refiltered, scanned>>

MergeVars == <<pool, indexed>>

ScanVars ==
    <<scanRoot, scanBroken, scanEntries, scanPc, scanLocal, scanContext, scanWorker,
      scanParser, scanCompiles, scanLock, scanAppended, scanIssues, scanReport>>

MethodVars == <<methodTable, registered, methodQuery>>

ExtractVars == <<parsedFile, extracted>>

SymbolVars == <<typeA, typeB, MethodVars, ExtractVars>>

RunVars == <<traceRun>>

HandlerVars == <<handled>>

vars ==
    <<DaoVars, TraceVars, AnalyzeVars, MergeVars, ScanVars, SymbolVars, RunVars, HandlerVars>>

\* the variables each state machine leaves alone
OutsideDao ==
    <<TraceVars, AnalyzeVars, MergeVars, ScanVars, SymbolVars, RunVars, HandlerVars>>

OutsideTrace ==
    <<DaoVars, AnalyzeVars, MergeVars, ScanVars, SymbolVars, RunVars, HandlerVars>>

OutsideAnalyze ==
    <<DaoVars, TraceVars, MergeVars, ScanVars, SymbolVars, RunVars, HandlerVars>>

OutsideMerge ==
    <<DaoVars, TraceVars, AnalyzeVars, ScanVars, SymbolVars, RunVars, HandlerVars>>

OutsideScan ==
    <<DaoVars, TraceVars, AnalyzeVars, MergeVars, SymbolVars, RunVars, HandlerVars>>

OutsideSymbols ==
    <<DaoVars, TraceVars, AnalyzeVars, MergeVars, ScanVars, RunVars, HandlerVars>>

\* ------------------------------------------------------------------ strings

StartsWith(s, p) == Len(p) <= Len(s) /\ SubSeq(s, 1, Len(p)) = p

EndsWith(s, p) == Len(p) <= Len(s) /\ SubSeq(s, Len(s) - Len(p) + 1, Len(s)) = p

Contains(s, p) == \E i \in 0..(Len(s) - Len(p)) : SubSeq(s, i + 1, i + Len(p)) = p

UpperCaseLetters ==
    {"A", "B", "C", "D", "E", "F", "G", "H", "I", "J", "K", "L", "M",
     "N", "O", "P", "Q", "R", "S", "T", "U", "V", "W", "X", "Y", "Z"}

LowerCaseLetters ==
    <<"a", "b", "c", "d", "e", "f", "g", "h", "i", "j", "k", "l", "m",
      "n", "o", "p", "q", "r", "s", "t", "u", "v", "w", "x", "y", "z">>

UpperCaseOrder ==
    <<"A", "B", "C", "D", "E", "F", "G", "H", "I", "J", "K", "L", "M",
      "N", "O", "P", "Q", "R", "S", "T", "U", "V", "W", "X", "Y", "Z">>

AsciiLowerChar(c) ==
    IF c \in UpperCaseLetters
    THEN LowerCaseLetters[CHOOSE i \in 1..26 : UpperCaseOrder[i] = c]
    ELSE c

to_lowercase(s) == [i \in 1..Len(s) |-> AsciiLowerChar(s[i])]

eq_ignore_ascii_case(a, b) == to_lowercase(a) = to_lowercase(b)

AnyOf(list, P(_)) == \E i \in 1..Len(list) : P(list[i])

\* ------------------------------------------------------- names of the inputs

S_Repository == <<"R","e","p","o","s","i","t","o","r","y">>
S_Dao == <<"D","a","o">>
S_Mapper == <<"M","a","p","p","e","r">>
S_repository == <<"r","e","p","o","s","i","t","o","r","y">>
S_dao == <<"d","a","o">>
S_find == <<"f","i","n","d">>
S_save == <<"s","a","v","e">>
S_Controller == <<"C","o","n","t","r","o","l","l","e","r">>
S_RestController == <<"R","e","s","t","C","o","n","t","r","o","l","l","e","r">>
S_Service == <<"S","e","r","v","i","c","e">>
S_Component == <<"C","o","m","p","o","n","e","n","t">>
N_none == <<>>
N_save == <<"s","a","v","e">>
N_findById == <<"f","i","n","d","B","y","I","d">>
N_findAll == <<"f","i","n","d","A","l","l">>
N_println == <<"p","r","i","n","t","l","n">>
N_getName == <<"g","e","t","N","a","m","e">>
N_FINDALL == <<"F","I","N","D","A","L","L">>
N_recount == <<"r","e","c","o","u","n","t">>
N_foo == <<"f","o","o">>
N_repo == <<"r","e","p","o">>
N_userDao == <<"u","s","e","r","D","a","o">>
N_SystemOut == <<"S","y","s","t","e","m",".","o","u","t">>
N_helper == <<"h","e","l","p","e","r">>
N_OrderService == <<"O","r","d","e","r","S","e","r","v","i","c","e">>
N_OrderRepository == <<"O","r","d","e","r","R","e","p","o","s","i","t","o","r","y">>
N_StringHelper == <<"S","t","r","i","n","g","H","e","l","p","e","r">>
N_RemoteClient == <<"R","e","m","o","t","e","C","l","i","e","n","t">>
N_Batch == <<"B","a","t","c","h">>
\* Option<T>: None is the empty sequence, Some(x) the one-element sequence.
None == <<>>

Some(x) == <<x>>

\* HashMap::insert: the entry for k is replaced, every other entry is kept.
MapInsert(map, k, v) == [x \in (DOMAIN map) \cup {k} |-> IF x = k THEN v ELSE map[x]]

EmptyMap == [x \in {} |-> x]

\* HashMap::get
MapGet(map, k) == IF k \in DOMAIN map THEN Some(map[k]) ELSE None

\* ------------------------------------------------ symbol_table.rs: the types

\* LayerType::from_annotation
from_annotation(annotation) ==
    IF annotation = S_Controller \/ annotation = S_RestController THEN "Controller"
    ELSE IF annotation = S_Service THEN "Service"
    ELSE IF annotation = S_Repository \/ annotation = S_Mapper THEN "Repository"
    ELSE IF annotation = S_Component THEN "Component"
    ELSE "Unknown"

\* TypeInfo::new (package, file and line carry no behaviour and are left out)
TypeInfo_new(name) == [name |-> name, annotations |-> <<>>, layer |-> "Unknown"]

\* TypeInfo::add_annotation
add_annotation(info, annotation) ==
    LET new_layer == from_annotation(annotation)
    IN  [info EXCEPT !.annotations = Append(@, annotation),
                     !.layer = IF new_layer # "Unknown" THEN new_layer ELSE @]

\* TypeInfo::is_dao
is_dao(info) ==
    \/ info.layer = "Repository"
    \/ \E i \in 1..Len(info.annotations) :
          LET a == info.annotations[i]
          IN  a = S_Repository \/ a = S_Mapper \/ EndsWith(a, S_Repository) \/ EndsWith(a, S_Dao)
    \/ EndsWith(info.name, S_Repository)
    \/ EndsWith(info.name, S_Dao)
    \/ EndsWith(info.name, S_Mapper)

\* VarBinding::new
VarBinding_new(name, type_name, is_field) ==
    [name |-> name, type_name |-> type_name, is_field |-> is_field, annotations |-> <<>>]

\* A symbol table value: the two maps the receiver queries read.
SymbolTable_new == [classes |-> EmptyMap, fields |-> EmptyMap]

\* SymbolTable::register_class
SymbolTable_register_class(table, info) ==
    [table EXCEPT !.classes = MapInsert(@, info.name, info)]

\* SymbolTable::register_field
register_field(table, class, binding) ==
    [table EXCEPT !.fields = MapInsert(@, <<class, binding.name>>, binding)]

\* A variant of lookup_var_type that resolves the receiver by its own name instead
\* of the declared type of its field binding.
lookup_var_type_by_var_name(table, class, var_name) ==
    MapGet(table.classes, var_name)

\* SymbolTable::lookup_var_type
lookup_var_type(table, class, var_name) ==
    LET binding == MapGet(table.fields, <<class, var_name>>)
    IN  IF binding # None THEN MapGet(table.classes, binding[1].type_name) ELSE None

\* SymbolTable::is_dao_var
is_dao_var(table, class, var_name) ==
    LET type_info == lookup_var_type(table, class, var_name)
    IN  IF type_info # None
        THEN is_dao(type_info[1])
        ELSE \/ EndsWith(var_name, S_Repository)
             \/ EndsWith(var_name, S_Dao)
             \/ EndsWith(var_name, S_Mapper)
             \/ Contains(var_name, S_repository)
             \/ Contains(var_name, S_dao)

\* is_dao_call: dao_methods
dao_methods ==
    << <<"f","i","n","d">>, <<"s","a","v","e">>,
       <<"d","e","l","e","t","e">>, <<"u","p","d","a","t","e">>,
       <<"i","n","s","e","r","t">>, <<"s","e","l","e","c","t">>,
       <<"g","e","t","B","y","I","d">>, <<"f","i","n","d","B","y","I","d">>,
       <<"f","i","n","d","A","l","l">>, <<"f","i","n","d","O","n","e">>,
       <<"s","a","v","e","A","l","l">>, <<"d","e","l","e","t","e","B","y","I","d">>,
       <<"d","e","l","e","t","e","A","l","l">>, <<"e","x","e","c","u","t","e">>,
       <<"q","u","e","r","y">>, <<"c","o","u","n","t">> >>

\* SymbolTable::is_dao_call
is_dao_call(table, class, receiver, method) ==
    \/ is_dao_var(table, class, receiver)
    \/ AnyOf(dao_methods, LAMBDA pattern : StartsWith(method, pattern) \/ Contains(method, pattern))


\* MethodInfo::new with its add_param calls (return type and annotations carry no
\* behaviour here and are left out)
MethodInfo_new(name, class, types, line) ==
    [name |-> name, class |-> class,
     params |-> [k \in 1..Len(types) |-> [name |-> <<"p">>, type_name |-> types[k]]],
     line |-> line]

RECURSIVE join(_, _)
\* [&str]::join(sep)
join(parts, sep) ==
    IF parts = <<>> THEN <<>>
    ELSE IF Len(parts) = 1 THEN parts[1]
    ELSE parts[1] \o sep \o join(Tail(parts), sep)

\* MethodInfo::signature: format!("{}({})", name, param_types.join(","))
signature(info) ==
    info.name \o <<"(">> \o
        join([k \in 1..Len(info.params) |-> info.params[k].type_name], <<",">>) \o <<")">>

\* method_index.entry(key).or_default().push(sig), on the list of the key
index_push(list, sig) == Append(list, sig)

\* SymbolTable::register_method
register_method(table, class, info) ==
    LET sig == signature(info)
        key == <<class, info.name>>
        listed == IF key \in DOMAIN table.method_index THEN table.method_index[key] ELSE <<>>
    IN  [methods |-> MapInsert(table.methods, <<class, sig>>, info),
         method_index |-> MapInsert(table.method_index, key, index_push(listed, sig))]

\* SymbolTable::lookup_methods: the MethodInfo of every signature the index lists
lookup_methods(table, class, method_name) ==
    LET key == <<class, method_name>>
    IN  IF key \in DOMAIN table.method_index
        THEN LET signatures == table.method_index[key]
                 found == SelectSeq(signatures,
                              LAMBDA sig : <<class, sig>> \in DOMAIN table.methods)
             IN  [k \in 1..Len(found) |-> table.methods[<<class, found[k]>>]]
        ELSE <<>>

\* SymbolTable::lookup_method_by_sig
lookup_method_by_sig(table, class, sig) == MapGet(table.methods, <<class, sig>>)

\* ------------------------------------------------------ taint.rs: the call graph

\* MethodSig::new
MethodSig_new(class, name) == [class |-> class, name |-> name]

\* CallGraph::new
CallGraph_new ==
    [outgoing |-> EmptyMap, incoming |-> EmptyMap,
     class_index |-> EmptyMap, class_layers |-> EmptyMap]

\* entry(k).or_default().push(v)
MapPush(map, k, v) == MapInsert(map, k, IF k \in DOMAIN map THEN Append(map[k], v) ELSE <<v>>)

\* add_call keeping one call site per method: a later call site of the same caller,
\* or to the same callee, replaces the earlier one
add_call_last_site(g, caller, callee, file, line) ==
    LET call_site == [file |-> file, line |-> line, callee |-> callee, caller |-> caller]
    IN  [g EXCEPT !.outgoing = MapInsert(@, caller, <<call_site>>),
                  !.incoming = MapInsert(@, callee, <<call_site>>)]

\* add_call without the incoming edge
add_call_outgoing_only(g, caller, callee, file, line) ==
    LET call_site == [file |-> file, line |-> line, callee |-> callee, caller |-> caller]
    IN  [g EXCEPT !.outgoing = MapPush(@, caller, call_site)]

\* CallGraph::add_call
add_call(g, caller, callee, file, line) ==
    LET call_site == [file |-> file, line |-> line, callee |-> callee, caller |-> caller]
    IN  [g EXCEPT !.outgoing = MapPush(@, caller, call_site),
                  !.incoming = MapPush(@, callee, call_site)]

\* CallGraph::register_class
CallGraph_register_class(g, class_name, file, layer) ==
    [g EXCEPT !.class_index = MapInsert(@, class_name, file),
              !.class_layers = MapInsert(@, class_name, layer)]

RECURSIVE dfs_trace(_, _, _, _, _, _)
RECURSIVE dfs_callees(_, _, _, _, _, _, _)

\* dfs_trace with the layer test placed before the depth test: a method of the target
\* layer is accepted even when the depth is used up.
dfs_trace_match_before_depth(g, current, target_layer, remaining_depth, path, visited) ==
    IF /\ current.class \in DOMAIN g.class_layers
       /\ g.class_layers[current.class] = target_layer
       /\ Len(path) > 1
    THEN <<path>>
    ELSE IF remaining_depth = 0 THEN <<>>
    ELSE IF current \in DOMAIN g.outgoing
         THEN dfs_callees(g, g.outgoing[current], 1, target_layer, remaining_depth, path, visited)
         ELSE <<>>

\* dfs_trace without the `path.len() > 1` test: the start method itself may match.
dfs_trace_start_may_match(g, current, target_layer, remaining_depth, path, visited) ==
    IF remaining_depth = 0 THEN <<>>
    ELSE IF /\ current.class \in DOMAIN g.class_layers
            /\ g.class_layers[current.class] = target_layer
         THEN <<path>>
    ELSE IF current \in DOMAIN g.outgoing
         THEN dfs_callees(g, g.outgoing[current], 1, target_layer, remaining_depth, path, visited)
         ELSE <<>>

\* CallGraph::dfs_trace: the paths it pushes to `result`, in the order pushed. `path`
\* and `visited` are restored after each callee (path.pop, visited.remove), so each
\* callee is explored from the same path and visited set.
dfs_trace(g, current, target_layer, remaining_depth, path, visited) ==
    IF remaining_depth = 0 THEN <<>>
    ELSE IF /\ current.class \in DOMAIN g.class_layers
            /\ g.class_layers[current.class] = target_layer
            /\ Len(path) > 1
         THEN <<path>>
    ELSE IF current \in DOMAIN g.outgoing
         THEN dfs_callees(g, g.outgoing[current], 1, target_layer, remaining_depth, path, visited)
         ELSE <<>>

\* the loop `for call_site in callees` of dfs_trace, from the i-th call site on
dfs_callees(g, callees, i, target_layer, remaining_depth, path, visited) ==
    IF i > Len(callees) THEN <<>>
    ELSE LET callee == callees[i].callee
             found == IF callee \notin visited
                      THEN dfs_trace(g, callee, target_layer, remaining_depth - 1,
                                     Append(path, callee), visited \cup {callee})
                      ELSE <<>>
         IN  found \o dfs_callees(g, callees, i + 1, target_layer, remaining_depth, path, visited)

\* CallGraph::trace_to_layer
trace_to_layer(g, start, target_layer, max_depth) ==
    dfs_trace(g, start, target_layer, max_depth, <<start>>, {})

\* CallGraph::detect_n_plus_one_chains: one report for every call site into a method
\* of a Repository class from whose caller trace_to_layer finds a path to the
\* Controller layer. The reports are pushed in the iteration order of the incoming
\* map, which is not fixed; they are kept as a set.
detect_n_plus_one_chains(g) ==
    {[dao_method |-> method, call_site |-> g.incoming[method][k],
      controller_paths |-> trace_to_layer(g, g.incoming[method][k].caller, "Controller", 5)] :
        <<method, k>> \in
            {mk \in UNION {{<<m, j>> : j \in 1..Len(g.incoming[m])} : m \in DOMAIN g.incoming} :
                /\ mk[1].class \in DOMAIN g.class_layers
                /\ g.class_layers[mk[1].class] = "Repository"
                /\ trace_to_layer(g, g.incoming[mk[1]][mk[2]].caller, "Controller", 5) # <<>>}}

\* ------------------------------- scanner/tree_sitter_java.rs: the source as parsed

\* A source file is a path and a sequence of lines. A line holds at most one statement
\* the rule queries can match and at most one suppression comment:
\*   stmt.kind = "call": an expression statement `receiver.method(..)` standing
\*       directly in the body block of a loop (stmt.loop = "for", "while", "foreach")
\*       or outside every loop (stmt.loop = "none"); receiver <<>> is a call without object
\*   stmt.kind = "sync_method": a method declaration with the synchronized modifier
\*   stmt.kind = "finalize": a method declaration `protected void finalize()`
\*   stmt.kind = "sync_block": a statement `synchronized (lock) { .. }`
\*   stmt.kind = "none": nothing a rule matches
NoStmt == [kind |-> "none", loop |-> "none", receiver |-> <<>>, method |-> <<>>,
     body |-> <<>>]

CallStmt(loop, receiver, method) ==
    [kind |-> "call", loop |-> loop, receiver |-> receiver, method |-> method,
     body |-> <<>>]

SyncMethodStmt == [kind |-> "sync_method", loop |-> "none", receiver |-> <<>>, method |-> <<>>,
     body |-> <<>>]

FinalizeStmt == [kind |-> "finalize", loop |-> "none", receiver |-> <<>>, method |-> <<>>,
     body |-> <<>>]

SyncBlockStmt == [kind |-> "sync_block", loop |-> "none", receiver |-> <<>>, method |-> <<>>,
     body |-> <<>>]

\* a catch clause; body is the sequence of the statements of its block, each a text
CatchStmt(body) ==
    [kind |-> "catch", loop |-> "none", receiver |-> <<>>, method |-> <<>>,
     body |-> body]

RECURSIVE block_text_from(_, _)
block_text_from(body, i) ==
    IF i > Len(body) THEN <<" ", "}">>
    ELSE <<" ">> \o body[i] \o block_text_from(body, i + 1)

\* body.utf8_text: the source text of the block of a catch clause
block_text(body) ==
    IF body = <<>> THEN <<"{", "}">> ELSE <<"{">> \o block_text_from(body, 1)

RECURSIVE trim_start_matches(_, _)
\* str::trim_start_matches(char): every leading occurrence is removed
trim_start_matches(s, c) ==
    IF s # <<>> /\ Head(s) = c THEN trim_start_matches(Tail(s), c) ELSE s

RECURSIVE trim_end_matches(_, _)
\* str::trim_end_matches(char): every trailing occurrence is removed
trim_end_matches(s, c) ==
    IF s # <<>> /\ s[Len(s)] = c THEN trim_end_matches(SubSeq(s, 1, Len(s) - 1), c) ELSE s

WhiteSpace == {" ", "\t", "\n", "\r"}

RECURSIVE trim_start(_)
trim_start(s) == IF s # <<>> /\ Head(s) \in WhiteSpace THEN trim_start(Tail(s)) ELSE s

RECURSIVE trim_end(_)
trim_end(s) ==
    IF s # <<>> /\ s[Len(s)] \in WhiteSpace THEN trim_end(SubSeq(s, 1, Len(s) - 1)) ELSE s

\* str::trim
trim(s) == trim_end(trim_start(s))

S_dot_print == <<".", "p", "r", "i", "n", "t">>

\* EMPTY_CATCH, the test on the text of the body:
\*   inner = body_text.trim_start_matches('{').trim_end_matches('}').trim();
\*   inner.is_empty() || inner.contains(".print")
empty_catch_reported(body) ==
    LET body_text == block_text(body)
        inner == trim(trim_end_matches(trim_start_matches(body_text, "{"), "}"))
    IN  inner = <<>> \/ Contains(inner, S_dot_print)

\* comment.kind: "none", "inline" (java-perf-ignore), "next_line"
\* (java-perf-ignore-next-line) or "file" (java-perf-ignore-file); comment.ids the rule
\* ids it lists
NoComment == [kind |-> "none", ids |-> {}]

\* Path::file_stem: the file name without its last extension
file_stem(path) ==
    LET dots == {i \in 2..Len(path) : path[i] = "."}
    IN  IF dots = {} THEN path
        ELSE SubSeq(path, 1, (CHOOSE i \in dots : \A j \in dots : j <= i) - 1)

\* compile_rules: the rules of the catalog the model covers, in catalog order
CompiledRules ==
    << [id |-> "N_PLUS_ONE", severity |-> "P0"],
       [id |-> "N_PLUS_ONE_WHILE", severity |-> "P0"],
       [id |-> "N_PLUS_ONE_FOREACH", severity |-> "P0"],
       [id |-> "SYNC_METHOD", severity |-> "P0"],
       [id |-> "FINALIZE_OVERRIDE", severity |-> "P0"],
       [id |-> "SYNC_BLOCK", severity |-> "P1"],
       [id |-> "EMPTY_CATCH", severity |-> "P0"] >>

\* the query of each rule: whether the statement on a line is a match of it
QueryMatch(rule_id, stmt) ==
    CASE rule_id = "N_PLUS_ONE" -> stmt.kind = "call" /\ stmt.loop = "for"
      [] rule_id = "N_PLUS_ONE_WHILE" -> stmt.kind = "call" /\ stmt.loop = "while"
      [] rule_id = "N_PLUS_ONE_FOREACH" -> stmt.kind = "call" /\ stmt.loop = "foreach"
      [] rule_id = "SYNC_METHOD" -> stmt.kind = "sync_method"
      [] rule_id = "FINALIZE_OVERRIDE" -> stmt.kind = "finalize"
      [] rule_id = "SYNC_BLOCK" -> stmt.kind = "sync_block"
      [] rule_id = "EMPTY_CATCH" -> stmt.kind = "catch"
      [] OTHER -> FALSE

\* analyze_tree_with_context, heuristic mode: dao_patterns
dao_patterns ==
    << <<"f","i","n","d","B","y">>, <<"f","i","n","d","A","l","l">>,
       <<"f","i","n","d","O","n","e">>, <<"f","i","n","d","B","y","I","d">>,
       <<"s","a","v","e","A","l","l">>, <<"s","a","v","e","A","n","d","F","l","u","s","h">>,
       <<"d","e","l","e","t","e","B","y">>, <<"d","e","l","e","t","e","A","l","l">>,
       <<"d","e","l","e","t","e","B","y","I","d">>, <<"s","e","l","e","c","t","B","y">>,
       <<"s","e","l","e","c","t","A","l","l">>, <<"s","e","l","e","c","t","O","n","e">>,
       <<"s","e","l","e","c","t","L","i","s","t">>, <<"q","u","e","r","y","B","y">>,
       <<"q","u","e","r","y","F","o","r">>, <<"q","u","e","r","y","A","l","l">>,
       <<"l","o","a","d","B","y">>, <<"l","o","a","d","A","l","l">>,
       <<"f","e","t","c","h","B","y">>, <<"f","e","t","c","h","A","l","l">>,
       <<"i","n","s","e","r","t","B","y">>, <<"i","n","s","e","r","t">>,
       <<"u","p","d","a","t","e","B","y">>, <<"u","p","d","a","t","e">>,
       <<"g","e","t","B","y","I","d">>, <<"g","e","t","O","n","e">>,
       <<"g","e","t","A","l","l">>, <<"g","e","t","L","i","s","t">> >>

\* analyze_tree_with_context, heuristic mode: the receiver keywords of step 3
receiver_keywords ==
    << <<"r","e","p","o">>, <<"d","a","o">>,
       <<"m","a","p","p","e","r">>, <<"s","e","r","v","i","c","e">> >>

\* analyze_tree_with_context, heuristic mode: the method prefixes of step 3
receiver_verbs ==
    << <<"f","i","n","d">>, <<"s","a","v","e">>,
       <<"d","e","l","e","t","e">>, <<"s","e","l","e","c","t">>,
       <<"q","u","e","r","y">>, <<"i","n","s","e","r","t">>,
       <<"u","p","d","a","t","e">> >>

\* the heuristic mode with its receiver test dropped: any method starting with a
\* data-access verb is suspicious
heuristic_suspicious_any_receiver(receiver_name, method_name_text) ==
    \/ AnyOf(dao_patterns, LAMBDA pattern :
          StartsWith(method_name_text, pattern) \/ eq_ignore_ascii_case(method_name_text, pattern))
    \/ AnyOf(receiver_verbs, LAMBDA verb : StartsWith(method_name_text, verb))

\* analyze_tree_with_context, N_PLUS_ONE branch, "Heuristic Mode (Legacy)"
heuristic_suspicious(receiver_name, method_name_text) ==
    LET by_pattern ==
            AnyOf(dao_patterns, LAMBDA pattern :
                StartsWith(method_name_text, pattern)
                    \/ eq_ignore_ascii_case(method_name_text, pattern))
        receiver_lower == to_lowercase(receiver_name)
    IN  \/ by_pattern
        \/ /\ ~by_pattern
           /\ receiver_name # <<>>
           /\ AnyOf(receiver_keywords, LAMBDA keyword : Contains(receiver_lower, keyword))
           /\ AnyOf(receiver_verbs, LAMBDA verb : StartsWith(method_name_text, verb))

\* analyze_tree_with_context, N_PLUS_ONE branch, "Semantic Mode"
semantic_suspicious(symbol_table, current_class_name, receiver_name, method_name_text) ==
    IF receiver_name # <<>>
    THEN is_dao_call(symbol_table, current_class_name, receiver_name, method_name_text)
    ELSE Contains(method_name_text, S_find) \/ Contains(method_name_text, S_save)

\* analyze_tree_with_context, N_PLUS_ONE branch: is_suspicious
is_suspicious(ctx, current_class_name, receiver_name, method_name_text) ==
    IF ctx # None
    THEN semantic_suspicious(ctx[1], current_class_name, receiver_name, method_name_text)
    ELSE heuristic_suspicious(receiver_name, method_name_text)

\* The confidence of an N+1 finding: High when the symbol table resolved the receiver
\* to a data-access type, Low when only name matching was available.
n_plus_one_confidence(ctx, current_class_name, receiver_name) ==
    IF ctx # None /\ receiver_name # <<>>
    THEN LET type_info == lookup_var_type(ctx[1], current_class_name, receiver_name)
         IN  IF type_info # None /\ is_dao(type_info[1]) THEN "High" ELSE "Low"
    ELSE "Low"

\* the issues one rule pushes for the statement of line `line`
RuleIssues(rule, stmt, line, ctx, file_path) ==
    LET current_class_name == file_stem(file_path)
    IN  IF ~QueryMatch(rule.id, stmt) THEN <<>>
        ELSE IF rule.id \in {"N_PLUS_ONE", "N_PLUS_ONE_WHILE", "N_PLUS_ONE_FOREACH"}
        THEN IF is_suspicious(ctx, current_class_name, stmt.receiver, stmt.method)
             THEN << [id |-> "N_PLUS_ONE", severity |-> rule.severity, file |-> file_path,
                      line |-> line, context |-> stmt.method,
                      confidence |->
                          n_plus_one_confidence(ctx, current_class_name, stmt.receiver)] >>
             ELSE <<>>
        ELSE IF rule.id = "EMPTY_CATCH" /\ ~empty_catch_reported(stmt.body) THEN <<>>
        ELSE << [id |-> rule.id, severity |-> rule.severity, file |-> file_path,
                 line |-> line, context |-> <<>>, confidence |-> "Unset"] >>

RECURSIVE MatchLines(_, _, _, _, _)
\* `for m in matches` for one rule: the matches come in source order
MatchLines(rule, lines, line, ctx, file_path) ==
    IF line > Len(lines) THEN <<>>
    ELSE RuleIssues(rule, lines[line].stmt, line, ctx, file_path)
             \o MatchLines(rule, lines, line + 1, ctx, file_path)

RECURSIVE RunRules(_, _, _, _, _)
\* `for rule in &self.compiled_rules`: the issues in the order they are pushed
RunRules(rules, i, lines, ctx, file_path) ==
    IF i > Len(rules) THEN <<>>
    ELSE MatchLines(rules[i], lines, 1, ctx, file_path)
             \o RunRules(rules, i + 1, lines, ctx, file_path)

\* ----------------------------------------------- rules/suppression.rs (from the spec)

RECURSIVE ParseLines(_, _, _)
\* SuppressionContext::parse from line `line` on, added to the context `acc`
ParseLines(lines, line, acc) ==
    IF line > Len(lines) THEN acc
    ELSE LET comment == lines[line].comment
             AddAt(l) == [acc EXCEPT !.line_rules =
                             MapInsert(@, l, (IF l \in DOMAIN @ THEN @[l] ELSE {}) \cup comment.ids)]
             next == CASE comment.kind = "file" ->
                              [acc EXCEPT !.file_suppressed = TRUE,
                                          !.file_rules = @ \cup comment.ids]
                       [] comment.kind = "inline" -> AddAt(line)
                       [] comment.kind = "next_line" -> AddAt(line + 1)
                       [] OTHER -> acc
         IN  ParseLines(lines, line + 1, next)

\* SuppressionContext::parse
SuppressionContext_parse(lines) ==
    ParseLines(lines, 1, [file_suppressed |-> FALSE, file_rules |-> {}, line_rules |-> EmptyMap])

\* SuppressionContext::is_file_suppressed
is_file_suppressed(suppression_ctx) == suppression_ctx.file_suppressed

\* SuppressionContext::is_suppressed
is_suppressed(suppression_ctx, id, line) ==
    line \in DOMAIN suppression_ctx.line_rules /\ id \in suppression_ctx.line_rules[line]

\* ---------------------- scanner/tree_sitter_java.rs: the suppression filter and analyze

\* the filter with its test inverted: the suppressed issues are the ones kept
suppression_filter_inverted(lines, issues) ==
    LET suppression_ctx == SuppressionContext_parse(lines)
    IN  IF is_file_suppressed(suppression_ctx) THEN <<>>
        ELSE SelectSeq(issues, LAMBDA issue : is_suppressed(suppression_ctx, issue.id, issue.line))

\* the filter dropping, besides the suppressed issues, the first issue it is given
suppression_filter_drops_first(lines, issues) ==
    LET suppression_ctx == SuppressionContext_parse(lines)
    IN  IF is_file_suppressed(suppression_ctx) \/ issues = <<>> THEN <<>>
        ELSE SelectSeq(Tail(issues),
                       LAMBDA issue : ~is_suppressed(suppression_ctx, issue.id, issue.line))

\* analyze_tree_with_context, the suppression filter at its end
suppression_filter(lines, issues) ==
    LET suppression_ctx == SuppressionContext_parse(lines)
    IN  IF is_file_suppressed(suppression_ctx) THEN <<>>
        ELSE SelectSeq(issues, LAMBDA issue : ~is_suppressed(suppression_ctx, issue.id, issue.line))

\* analyze_tree_with_context: the issues the rules push, before the filter
raw_issues(code, ctx) ==
    RunRules(CompiledRules, 1, code.lines, ctx, code.path)

\* analyze_tree_with_context / analyze_with_context
analyze_with_context(code, ctx) ==
    suppression_filter(code.lines, raw_issues(code, ctx))

\* ------------------------------------------- rule_handlers.rs: NPlusOneHandler

\* NPlusOneHandler::is_dao_method: dao_patterns
handler_dao_patterns ==
    << <<"f","i","n","d","B","y">>, <<"f","i","n","d","A","l","l">>,
       <<"f","i","n","d","O","n","e">>, <<"f","i","n","d","B","y","I","d">>,
       <<"s","a","v","e","A","l","l">>, <<"s","a","v","e","A","n","d","F","l","u","s","h">>,
       <<"d","e","l","e","t","e","B","y">>, <<"d","e","l","e","t","e","A","l","l">>,
       <<"d","e","l","e","t","e","B","y","I","d">>, <<"s","e","l","e","c","t","B","y">>,
       <<"s","e","l","e","c","t","A","l","l">>, <<"s","e","l","e","c","t","O","n","e">>,
       <<"s","e","l","e","c","t","L","i","s","t">>, <<"q","u","e","r","y","B","y">>,
       <<"q","u","e","r","y","F","o","r">>, <<"q","u","e","r","y","A","l","l">>,
       <<"l","o","a","d","B","y">>, <<"l","o","a","d","A","l","l">>,
       <<"f","e","t","c","h","B","y">>, <<"f","e","t","c","h","A","l","l">> >>

\* NPlusOneHandler::is_dao_receiver: dao_suffixes
handler_dao_suffixes ==
    << <<"R","e","p","o","s","i","t","o","r","y">>, <<"D","a","o">>, <<"M","a","p","p","e","r">>,
       <<"r","e","p","o">>, <<"d","a","o">>, <<"m","a","p","p","e","r">> >>

NPlusOneHandler_is_dao_method(method_name) ==
    AnyOf(handler_dao_patterns, LAMBDA pattern : StartsWith(method_name, pattern))

NPlusOneHandler_is_dao_receiver(receiver) ==
    AnyOf(handler_dao_suffixes,
          LAMBDA suffix : EndsWith(receiver, suffix) \/ Contains(receiver, suffix))

\* NPlusOneHandler::handle on one match of the rule `rule`: Some(issue) or None
NPlusOneHandler_handle(rule, ctx, file_path, stmt, line) ==
    LET method_name_text == stmt.method
        receiver_name == stmt.receiver
        handler_suspicious ==
            IF ctx # None
            THEN IF receiver_name # <<>>
                 THEN is_dao_call(ctx[1], file_stem(file_path), receiver_name, method_name_text)
                 ELSE Contains(method_name_text, S_find) \/ Contains(method_name_text, S_save)
            ELSE \/ NPlusOneHandler_is_dao_method(method_name_text)
                 \/ NPlusOneHandler_is_dao_receiver(receiver_name)
    IN  IF handler_suspicious
        THEN Some([id |-> rule.id, severity |-> rule.severity, file |-> file_path,
                   line |-> line,
                   context |-> receiver_name \o <<".">> \o method_name_text \o <<"(", ")">>])
        ELSE None

\* the rule ids create_handler gives an NPlusOneHandler
n_plus_one_rule_ids == {"N_PLUS_ONE", "N_PLUS_ONE_WHILE", "N_PLUS_ONE_FOREACH"}

\* create_handler(rule.id).handle(..) for the match of an N+1 rule on the statement of
\* line `line`, None where no N+1 rule matches the statement
handle_line(code, ctx, line) ==
    LET stmt == code.lines[line].stmt
        matching == {i \in 1..Len(CompiledRules) :
                        /\ CompiledRules[i].id \in n_plus_one_rule_ids
                        /\ QueryMatch(CompiledRules[i].id, stmt)}
    IN  IF matching = {} THEN None
        ELSE NPlusOneHandler_handle(CompiledRules[CHOOSE i \in matching : TRUE],
                                    ctx, code.path, stmt, line)

\* CodeAnalyzer::analyze: the single pass, without context
analyze(code) == analyze_with_context(code, None)

\* ------------------------------------------------ ast_engine.rs: the legacy rules

\* get_rules: the regex rules the model covers, in their order
LegacyRules ==
    << [id |-> "EXCEPTION_IGNORE", severity |-> "P0"],
       [id |-> "SYNC_BLOCK", severity |-> "P1"],
       [id |-> "EXCEPTION_SWALLOW", severity |-> "P1"],
       [id |-> "FINALIZE_OVERRIDE", severity |-> "P0"] >>

\* RE_EXCEPTION_IGNORE, catch\s*\([^)]+\)\s*\{\s*\}, on the text of a catch block:
\* the opening brace, white space only, the closing brace
RE_EXCEPTION_IGNORE(body_text) ==
    /\ body_text # <<>>
    /\ Head(body_text) = "{"
    /\ StartsWith(trim_start(Tail(body_text)), <<"}">>)

RECURSIVE until_closing_brace(_)
\* [^}]*: the longest run of characters other than the closing brace
until_closing_brace(s) ==
    IF s = <<>> \/ Head(s) = "}" THEN <<>> ELSE <<Head(s)>> \o until_closing_brace(Tail(s))

\* RE_EXCEPTION_SWALLOW, catch\s*\([^)]+\)\s*\{[^}]*\.print, on the text of a catch
\* block: ".print" after the opening brace and before any closing brace
RE_EXCEPTION_SWALLOW(body_text) ==
    /\ body_text # <<>>
    /\ Head(body_text) = "{"
    /\ Contains(until_closing_brace(Tail(body_text)), S_dot_print)

\* rule.regex.is_match on the text of one statement
RegexMatch(rule_id, stmt) ==
    CASE rule_id = "SYNC_BLOCK" -> stmt.kind = "sync_block"
      [] rule_id = "FINALIZE_OVERRIDE" -> stmt.kind = "finalize"
      [] rule_id = "EXCEPTION_IGNORE" ->
            stmt.kind = "catch" /\ RE_EXCEPTION_IGNORE(block_text(stmt.body))
      [] rule_id = "EXCEPTION_SWALLOW" ->
            stmt.kind = "catch" /\ RE_EXCEPTION_SWALLOW(block_text(stmt.body))
      [] OTHER -> FALSE

RECURSIVE LegacyIssues(_, _, _, _)
\* analyze_java_code, step 4: for each rule its first match, unless an issue with the
\* same id and line is already there
LegacyIssues(rules, i, code, issues) ==
    IF i > Len(rules) THEN issues
    ELSE LET rule == rules[i]
             hits == {line \in 1..Len(code.lines) : RegexMatch(rule.id, code.lines[line].stmt)}
         IN  IF hits = {} THEN LegacyIssues(rules, i + 1, code, issues)
             ELSE LET line_num == CHOOSE line \in hits : \A other \in hits : line <= other
                      exists == \E k \in 1..Len(issues) :
                                    issues[k].issue_type = rule.id /\ issues[k].line = line_num
                  IN  LegacyIssues(rules, i + 1, code,
                          IF exists THEN issues
                          ELSE Append(issues, [severity |-> rule.severity, issue_type |-> rule.id,
                                               file |-> code.path, line |-> line_num]))

\* analyze_java_code
analyze_java_code(code) == LegacyIssues(LegacyRules, 1, code, <<>>)

\* convert_issue
convert_issue(issue) ==
    [severity |-> issue.severity, issue_type |-> issue.id, file |-> issue.file,
     line |-> issue.line]

\* Iterator::map(f).collect()
MapSeq(seq, f(_)) == [i \in 1..Len(seq) |-> f(seq[i])]

\* --------------------------------------------------- the merge of partial indexes

\* the union of two maps; on a key of both, the entry of the second one wins
MapUnion(a, b) ==
    [k \in (DOMAIN a) \cup (DOMAIN b) |-> IF k \in DOMAIN b THEN b[k] ELSE a[k]]

\* the union of two adjacency maps; on a key of both, the lists are concatenated
MapConcat(a, b) ==
    [k \in (DOMAIN a) \cup (DOMAIN b) |->
        (IF k \in DOMAIN a THEN a[k] ELSE <<>>) \o (IF k \in DOMAIN b THEN b[k] ELSE <<>>)]

\* SymbolTable::merge
SymbolTable_merge(a, b) ==
    [classes |-> MapUnion(a.classes, b.classes), fields |-> MapUnion(a.fields, b.fields)]

\* CallGraph::merge
CallGraph_merge(a, b) ==
    [outgoing |-> MapConcat(a.outgoing, b.outgoing),
     incoming |-> MapConcat(a.incoming, b.incoming),
     class_index |-> MapUnion(a.class_index, b.class_index),
     class_layers |-> MapUnion(a.class_layers, b.class_layers)]

\* ------------------------------------------------------- the state machines

DaoIdle ==
    /\ symtab = SymbolTable_new
    /\ daoQuery = None

TraceIdle ==
    /\ graph = CallGraph_new
    /\ traceQuery = None
    /\ chainReports = None
    /\ traceRun = None

HandlerIdle == handled = None

AnalyzeIdle ==
    /\ source = [path |-> <<>>, lines |-> <<>>]
    /\ context = None
    /\ analysis = None
    /\ refiltered = None
    /\ scanned = None

MergeIdle ==
    /\ pool = <<>>
    /\ indexed = [files |-> 0, calls |-> 0, classes |-> {}]

ScanIdle ==
    /\ scanRoot = "listed"
    /\ scanBroken = {}
    /\ scanEntries = <<>>
    /\ scanPc = <<>>
    /\ scanLocal = <<>>
    /\ scanContext = <<>>
    /\ scanWorker = <<>>
    /\ scanParser = <<>>
    /\ scanCompiles = 0
    /\ scanLock = 0
    /\ scanAppended = <<>>
    /\ scanIssues = <<>>
    /\ scanReport = None

ExtractIdle ==
    /\ parsedFile = [kind |-> "class", name |-> <<>>, annotations |-> <<>>, fields |-> <<>>]
    /\ extracted = None

SymbolIdle ==
    /\ typeA = TypeInfo_new(<<>>)
    /\ typeB = TypeInfo_new(<<>>)
    /\ methodTable = [methods |-> EmptyMap, method_index |-> EmptyMap]
    /\ registered = <<>>
    /\ methodQuery = None
    /\ ExtractIdle

\* ------------------------------------------- the symbol table as a state machine

ClassNames == {N_OrderRepository, N_StringHelper}

AnnotationLists == {<<>>, <<S_Repository>>, <<S_Service>>}

OwnerClasses == {N_OrderService, N_Batch}

FieldNames == {N_repo, N_helper, N_userDao}

FieldTypes == {N_OrderRepository, N_StringHelper, N_RemoteClient}

ReceiverNames == {N_repo, N_helper, N_userDao, N_foo}

MethodNames == {N_findById, N_save, N_getName, N_recount}

RECURSIVE AddAnnotations(_, _)
\* add_annotation for each annotation of a declaration, in source order
AddAnnotations(info, anns) ==
    IF anns = <<>> THEN info
    ELSE AddAnnotations(add_annotation(info, Head(anns)), Tail(anns))

InitDao ==
    DaoIdle /\ TraceIdle /\ HandlerIdle /\ AnalyzeIdle /\ MergeIdle /\ ScanIdle /\ SymbolIdle

\* register_class of a class declaration with its annotations
RegisterClass(name, anns) ==
    /\ symtab' = SymbolTable_register_class(symtab, AddAnnotations(TypeInfo_new(name), anns))
    /\ daoQuery' = None
    /\ UNCHANGED OutsideDao

\* register_field of a field declaration of class `class`
RegisterField(class, name, type_name) ==
    /\ symtab' = register_field(symtab, class, VarBinding_new(name, type_name, TRUE))
    /\ daoQuery' = None
    /\ UNCHANGED OutsideDao

\* one call of is_dao_call on the current table
IsDaoCall(class, receiver, method) ==
    /\ daoQuery = None
    /\ daoQuery' = Some([class |-> class, receiver |-> receiver, method |-> method,
                         result |-> is_dao_call(symtab, class, receiver, method)])
    /\ UNCHANGED symtab
    /\ UNCHANGED OutsideDao

NextDao ==
    \/ \E name \in ClassNames, anns \in AnnotationLists : RegisterClass(name, anns)
    \/ \E name \in FieldNames, type_name \in FieldTypes :
          RegisterField(N_OrderService, name, type_name)
    \/ \E class \in OwnerClasses, receiver \in ReceiverNames, method \in MethodNames :
          IsDaoCall(class, receiver, method)

SpecDao == InitDao /\ [][NextDao]_vars

\* the DAO naming pattern of receiver names, as the claim C6 puts it
DaoReceiverName(var_name) ==
    \/ EndsWith(var_name, S_Repository)
    \/ EndsWith(var_name, S_Dao)
    \/ EndsWith(var_name, S_Mapper)
    \/ Contains(var_name, S_repository)
    \/ Contains(var_name, S_dao)

\* C6 (as claimed): is_dao_call is true exactly when the receiver resolves through a
\* field binding to a registered DAO class, or the lookup fails and the receiver name
\* follows the DAO naming pattern or the method name starts with a data-access verb;
\* a receiver resolved to a non-DAO class, or a verb in the middle of the method
\* name, gives false.
C6_IsDaoCallExact ==
    daoQuery # None =>
        LET q == daoQuery[1]
            resolved == lookup_var_type(symtab, q.class, q.receiver)
        IN  q.result <=>
               \/ (resolved # None /\ is_dao(resolved[1]))
               \/ /\ resolved = None
                  /\ \/ DaoReceiverName(q.receiver)
                     \/ AnyOf(dao_methods, LAMBDA pattern : StartsWith(q.method, pattern))

\* --------------------------------------------- the call graph as a state machine

MaxCalls == 2

MaxDepth == 5

A_getUsers == MethodSig_new("UserController", "getUsers")

B_findAll == MethodSig_new("UserService", "findAll")

C_findById == MethodSig_new("UserRepository", "findById")

Methods == {A_getUsers, B_findAll, C_findById}

GraphClasses == {"UserController", "UserService", "UserRepository"}

\* the layer each class of the input declares (its annotation)
DeclaredLayer ==
    [class_name \in GraphClasses |->
        CASE class_name = "UserController" -> "Controller"
          [] class_name = "UserService" -> "Service"
          [] class_name = "UserRepository" -> "Repository"]

TargetLayers == {"Controller", "Service", "Repository"}

RECURSIVE SumOver(_, _)
SumOver(map, keys) ==
    IF keys = {} THEN 0
    ELSE LET k == CHOOSE x \in keys : TRUE
         IN  Len(map[k]) + SumOver(map, keys \ {k})

\* the number of call sites listed in an adjacency map
TotalCallSites(map) == SumOver(map, DOMAIN map)

InitTrace ==
    TraceIdle /\ HandlerIdle /\ DaoIdle /\ AnalyzeIdle /\ MergeIdle /\ ScanIdle /\ SymbolIdle

\* add_call for a call found in the caller's file; the k-th call is on line 10 * k
AddCall(caller, callee) ==
    /\ traceRun = None
    /\ TotalCallSites(graph.outgoing) < MaxCalls
    /\ graph' = add_call(graph, caller, callee, caller.class,
                         10 * (TotalCallSites(graph.outgoing) + 1))
    /\ traceQuery' = None
    /\ chainReports' = None
    /\ UNCHANGED OutsideTrace

\* register_class for a class declaration, with the layer it declares
RegisterLayer(class_name) ==
    /\ traceRun = None
    /\ graph' = CallGraph_register_class(graph, class_name, class_name,
                                          DeclaredLayer[class_name])
    /\ traceQuery' = None
    /\ chainReports' = None
    /\ UNCHANGED OutsideTrace

\* one call of trace_to_layer on the current graph
TraceToLayer(start, target_layer, max_depth) ==
    /\ traceQuery = None
    /\ chainReports = None
    /\ traceQuery' = Some([start |-> start, target_layer |-> target_layer,
                           max_depth |-> max_depth,
                           paths |-> trace_to_layer(graph, start, target_layer, max_depth)])
    /\ UNCHANGED <<graph, chainReports>>
    /\ UNCHANGED OutsideTrace

\* one call of detect_n_plus_one_chains on the current graph
DetectChains ==
    /\ traceQuery = None
    /\ chainReports = None
    /\ chainReports' = Some(detect_n_plus_one_chains(graph))
    /\ UNCHANGED <<graph, traceQuery>>
    /\ UNCHANGED OutsideTrace

NextTrace ==
    \/ \E caller \in Methods, callee \in Methods : AddCall(caller, callee)
    \/ \E class_name \in GraphClasses : RegisterLayer(class_name)
    \/ \E start \in Methods, target_layer \in TargetLayers, max_depth \in 0..MaxDepth :
          TraceToLayer(start, target_layer, max_depth)
    \/ DetectChains

SpecTrace == InitTrace /\ [][NextTrace]_vars

\* ------------------------------------- trace_to_layer, one step of its run at a time

\* the index of the call site the loop `for call_site in callees` visits after the i-th
callees_stay(i) == i

callees_next(i) == i + 1

\* the activation record of one dfs_trace call: `next` is 0 until the two tests at the
\* top of the body have run, then the index of the call site the loop is at
Frame(current, remaining_depth) ==
    [current |-> current, remaining_depth |-> remaining_depth, next |-> 0]

\* trace_to_layer up to its call of dfs_trace: paths and visited empty, the start
\* method alone on current_path
trace_to_layer_begin(start, target_layer, max_depth) ==
    [start |-> start, target_layer |-> target_layer, max_depth |-> max_depth,
     stack |-> <<Frame(start, max_depth)>>, path |-> <<start>>, visited |-> {},
     result |-> <<>>]

Front(seq) == SubSeq(seq, 1, Len(seq) - 1)

\* a dfs_trace call returns: its frame is dropped and the caller, if there is one, runs
\* path.pop() and visited.remove(callee) and moves to its next call site
dfs_return(run, result) ==
    LET depth == Len(run.stack)
        callee == run.stack[depth].current
    IN  IF depth = 1
        THEN [run EXCEPT !.stack = <<>>, !.result = result]
        ELSE [run EXCEPT !.stack = [Front(@) EXCEPT ![depth - 1].next = callees_next(@)],
                         !.path = Front(@),
                         !.visited = @ \ {callee},
                         !.result = result]

\* one step of the dfs_trace call on top of the stack
dfs_step(g, run) ==
    LET depth == Len(run.stack)
        frame == run.stack[depth]
        current == frame.current
    IN  IF frame.next = 0
        THEN IF frame.remaining_depth = 0 THEN dfs_return(run, run.result)
             ELSE IF /\ current.class \in DOMAIN g.class_layers
                     /\ g.class_layers[current.class] = run.target_layer
                     /\ Len(run.path) > 1
                  THEN dfs_return(run, Append(run.result, run.path))
             ELSE IF current \in DOMAIN g.outgoing
                  THEN [run EXCEPT !.stack[depth].next = 1]
                  ELSE dfs_return(run, run.result)
        ELSE IF frame.next > Len(g.outgoing[current]) THEN dfs_return(run, run.result)
             ELSE LET callee == g.outgoing[current][frame.next].callee
                  IN  IF callee \notin run.visited
                      THEN [run EXCEPT !.visited = @ \cup {callee},
                                       !.path = Append(@, callee),
                                       !.stack = Append(@, Frame(callee,
                                                            frame.remaining_depth - 1))]
                      ELSE [run EXCEPT !.stack[depth].next = callees_next(@)]

\* the call graph is traced with no class registered yet (every class_layers lookup
\* misses) or with all the classes of the project registered
Traceable == DOMAIN graph.class_layers \in {{}, GraphClasses}

\* a call of trace_to_layer begins
StartTrace(start, target_layer, max_depth) ==
    /\ traceRun = None
    /\ Traceable
    /\ traceRun' = Some(trace_to_layer_begin(start, target_layer, max_depth))
    /\ UNCHANGED TraceVars
    /\ UNCHANGED <<DaoVars, AnalyzeVars, MergeVars, ScanVars, SymbolVars, HandlerVars>>

\* the running call executes its next step
DfsStep ==
    /\ traceRun # None
    /\ traceRun[1].stack # <<>>
    /\ traceRun' = Some(dfs_step(graph, traceRun[1]))
    /\ UNCHANGED TraceVars
    /\ UNCHANGED <<DaoVars, AnalyzeVars, MergeVars, ScanVars, SymbolVars, HandlerVars>>

NextDfs ==
    \/ \E caller \in Methods, callee \in Methods : AddCall(caller, callee)
    \/ \E class_name \in GraphClasses : RegisterLayer(class_name)
    \/ \E start \in Methods, target_layer \in TargetLayers, max_depth \in 0..MaxDepth :
          StartTrace(start, target_layer, max_depth)
    \/ DfsStep

\* the thread that called trace_to_layer keeps running it: a step that can be taken
\* is taken
SpecDfs == InitTrace /\ [][NextDfs]_vars /\ WF_vars(DfsStep)

Running == traceRun # None /\ traceRun[1].stack # <<>>

Returned == traceRun # None /\ traceRun[1].stack = <<>>

\* C26: every call of trace_to_layer returns, whatever the graph (cycles, self-calls
\* and parallel call sites included), the start method and max_depth.
C26_TraceTerminates == Running ~> Returned

\* a call has returned on a graph with a cycle through the start method
C26_ReturnedOnCycle ==
    /\ Returned
    /\ \E m \in Methods \ {traceRun[1].start} :
          /\ traceRun[1].start \in DOMAIN graph.outgoing
          /\ m \in DOMAIN graph.outgoing
          /\ graph.outgoing[traceRun[1].start][1].callee = m
          /\ graph.outgoing[m][1].callee = traceRun[1].start
    /\ traceRun[1].max_depth = 2

\* the step-wise run returns the paths trace_to_layer computes
RunAgrees ==
    Returned =>
        traceRun[1].result = trace_to_layer(graph, traceRun[1].start,
                                            traceRun[1].target_layer, traceRun[1].max_depth)

\* the graph Controller.A -> Service.B -> Repository.C with its three classes registered
IsChain(g) ==
    /\ DOMAIN g.outgoing = {A_getUsers, B_findAll}
    /\ Len(g.outgoing[A_getUsers]) = 1 /\ g.outgoing[A_getUsers][1].callee = B_findAll
    /\ Len(g.outgoing[B_findAll]) = 1 /\ g.outgoing[B_findAll][1].callee = C_findById
    /\ DOMAIN g.class_layers = GraphClasses

\* C4: no path returned by trace_to_layer has more than max_depth methods; on the chain
\* A -> B -> C, trace_to_layer(A, Repository, 5) returns exactly the path [A, B, C] and
\* trace_to_layer(A, Repository, 1) returns no path.
C4_DepthBound ==
    traceQuery # None =>
        LET q == traceQuery[1]
        IN  /\ \A i \in 1..Len(q.paths) : Len(q.paths[i]) <= q.max_depth
            /\ (IsChain(graph) /\ q.start = A_getUsers /\ q.target_layer = "Repository") =>
                  /\ q.max_depth = 5 => q.paths = << <<A_getUsers, B_findAll, C_findById>> >>
                  /\ q.max_depth = 1 => q.paths = <<>>

\* C4 witness: trace_to_layer(A, Repository, 5) has run on the chain and found a path.
C4_ChainTraced ==
    /\ traceQuery # None
    /\ IsChain(graph)
    /\ traceQuery[1].start = A_getUsers
    /\ traceQuery[1].target_layer = "Repository"
    /\ traceQuery[1].max_depth = 5
    /\ Len(traceQuery[1].paths) = 1

\* C5: every returned path begins with start, has more than one element, ends at a
\* method whose class is registered with the target layer, and each consecutive pair
\* of it is joined by a recorded outgoing call site.
C5_PathsWellFormed ==
    traceQuery # None =>
        LET q == traceQuery[1]
        IN  \A i \in 1..Len(q.paths) :
               LET path == q.paths[i]
                   last == path[Len(path)]
               IN  /\ Len(path) > 1
                   /\ path[1] = q.start
                   /\ last.class \in DOMAIN graph.class_layers
                   /\ graph.class_layers[last.class] = q.target_layer
                   /\ \A k \in 1..(Len(path) - 1) :
                         /\ path[k] \in DOMAIN graph.outgoing
                         /\ \E j \in 1..Len(graph.outgoing[path[k]]) :
                               graph.outgoing[path[k]][j].callee = path[k + 1]

\* C5 witness: a trace whose start method is itself in the target layer returned a path.
C5_StartInTargetLayer ==
    /\ traceQuery # None
    /\ traceQuery[1].start.class \in DOMAIN graph.class_layers
    /\ graph.class_layers[traceQuery[1].start.class] = traceQuery[1].target_layer
    /\ traceQuery[1].paths # <<>>

\* no method occurs twice in the sequence
IsSimple(path) == \A a, b \in 1..Len(path) : path[a] = path[b] => a = b

\* C27 (as claimed): every path returned by trace_to_layer is simple: no path holds the
\* same method twice, the start method included.
C27_PathsSimple ==
    traceQuery # None =>
        \A i \in 1..Len(traceQuery[1].paths) : IsSimple(traceQuery[1].paths[i])

\* the call sites an adjacency map lists, with the number of times it lists each
SiteCount(map, site) ==
    SumOver([m \in DOMAIN map |->
                SelectSeq(map[m], LAMBDA listed : listed = site)], DOMAIN map)

SitesOf(map) == UNION {{map[m][k] : k \in 1..Len(map[m])} : m \in DOMAIN map}

\* C28: the two adjacency maps mirror each other: every call site is listed under
\* outgoing[caller] as many times as under incoming[callee] and nowhere else, the
\* totals of outgoing and incoming call sites are equal, and class_index and
\* class_layers have the same keys.
C28_MapsMirror ==
    /\ \A site \in SitesOf(graph.outgoing) \cup SitesOf(graph.incoming) :
          /\ site.caller \in DOMAIN graph.outgoing
          /\ site.callee \in DOMAIN graph.incoming
          /\ SiteCount(graph.outgoing, site) = SiteCount(graph.incoming, site)
          /\ SiteCount(graph.outgoing, site) =
                Len(SelectSeq(graph.outgoing[site.caller], LAMBDA listed : listed = site))
          /\ SiteCount(graph.incoming, site) =
                Len(SelectSeq(graph.incoming[site.callee], LAMBDA listed : listed = site))
    /\ TotalCallSites(graph.outgoing) = TotalCallSites(graph.incoming)
    /\ DOMAIN graph.class_index = DOMAIN graph.class_layers

\* two calls between the same two methods and a registered class
C28_ParallelCallSites ==
    /\ \E m \in DOMAIN graph.outgoing :
          /\ Len(graph.outgoing[m]) = 2
          /\ graph.outgoing[m][1].callee = graph.outgoing[m][2].callee
    /\ DOMAIN graph.class_layers # {}

\* the methods of Controller classes, as registered
ControllerMethods(g) ==
    {m \in Methods : m.class \in DOMAIN g.class_layers /\ g.class_layers[m.class] = "Controller"}

\* the methods called by a method of the set
Callees(g, set) ==
    UNION {{g.outgoing[m][k].callee : k \in 1..Len(g.outgoing[m])} :
              m \in set \cap DOMAIN g.outgoing}

RECURSIVE ReachableFrom(_, _)
\* the methods reachable from a set of methods along recorded calls
ReachableFrom(g, set) ==
    LET next == set \cup Callees(g, set)
    IN  IF next = set THEN set ELSE ReachableFrom(g, next)

\* the call sites into methods of Repository classes
RepositoryCallSites(g) ==
    UNION {{g.incoming[m][k] : k \in 1..Len(g.incoming[m])} :
              m \in {x \in DOMAIN g.incoming :
                        /\ x.class \in DOMAIN g.class_layers
                        /\ g.class_layers[x.class] = "Repository"}}

\* C24 (as claimed): detect_n_plus_one_chains reports a call site into a Repository
\* method exactly when the caller of the call site is reachable along recorded calls
\* from a Controller method; on Controller.A -> Service.B -> Repository.C it reports
\* the B -> C call site.
C24_ReachableFromController ==
    chainReports # None =>
        \A call_site \in RepositoryCallSites(graph) :
            (\E report \in chainReports[1] : report.call_site = call_site)
                <=> call_site.caller \in ReachableFrom(graph, ControllerMethods(graph))

\* ------------------------------------------------- the analyzer as a state machine

MaxCallLines == 2

MaxSourceLines == 2

P_OrderService_java == N_OrderService \o <<".", "j", "a", "v", "a">>

P_Batch_java == N_Batch \o <<".", "j", "a", "v", "a">>

SourcePaths == {P_OrderService_java, P_Batch_java}

\* class OrderRepository annotated @Repository; OrderService has the field
\* `repo` of type OrderRepository
OrderTable ==
    register_field(
        SymbolTable_register_class(SymbolTable_new,
            add_annotation(TypeInfo_new(N_OrderRepository), S_Repository)),
        N_OrderService, VarBinding_new(N_repo, N_OrderRepository, TRUE))

\* class StringHelper without annotation; OrderService has the field `repo` of
\* type StringHelper
HelperTable ==
    register_field(
        SymbolTable_register_class(SymbolTable_new, TypeInfo_new(N_StringHelper)),
        N_OrderService, VarBinding_new(N_repo, N_StringHelper, TRUE))

Contexts == {None, Some(OrderTable), Some(HelperTable)}

Loops == {"for", "while", "foreach"}

LoopKinds == Loops \cup {"none"}

\* the (receiver, method) pairs of the calls of the input
CallShapes ==
    { <<N_repo, N_save>>, <<N_foo, N_save>>, <<N_foo, N_findById>>,
      <<N_SystemOut, N_println>>, <<N_repo, N_findAll>>, <<N_none, N_findAll>>,
      <<N_foo, N_FINDALL>> }

CallStmts == {CallStmt(loop, shape[1], shape[2]) : loop \in LoopKinds, shape \in CallShapes}

\* the statements and comments of the suppression inputs
SuppStmts ==
    {NoStmt, SyncMethodStmt, FinalizeStmt, CallStmt("for", N_repo, N_save)}

SuppIdSets == {{"N_PLUS_ONE"}, {"SYNC_METHOD"}, {"N_PLUS_ONE", "FINALIZE_OVERRIDE"}}

SuppComments ==
    {NoComment} \cup
        {[kind |-> kind, ids |-> ids] : kind \in {"inline", "next_line", "file"}, ids \in SuppIdSets}

InitAnalyze ==
    /\ DaoIdle /\ TraceIdle /\ HandlerIdle /\ MergeIdle /\ ScanIdle /\ SymbolIdle
    /\ source \in {[path |-> path, lines |-> <<>>] : path \in SourcePaths}
    /\ context \in Contexts
    /\ analysis = None
    /\ refiltered = None
    /\ scanned = None

InitSupp ==
    /\ DaoIdle /\ TraceIdle /\ HandlerIdle /\ MergeIdle /\ ScanIdle /\ SymbolIdle
    /\ source = [path |-> P_Batch_java, lines |-> <<>>]
    /\ context = None
    /\ analysis = None
    /\ refiltered = None
    /\ scanned = None

\* one more line of the source file, while it is being written
AppendLine(stmt, comment, max_lines) ==
    /\ analysis = None
    /\ scanned = None
    /\ Len(source.lines) < max_lines
    /\ source' = [source EXCEPT !.lines = Append(@, [stmt |-> stmt, comment |-> comment])]
    /\ UNCHANGED <<context, analysis, refiltered, scanned>>
    /\ UNCHANGED OutsideAnalyze

\* analyze_with_context(code, file_path, context): the rules, then the filter
Analyze ==
    /\ analysis = None
    /\ analysis' = Some([raw |-> raw_issues(source, context),
                         issues |-> analyze_with_context(source, context)])
    /\ UNCHANGED <<source, context, refiltered, scanned>>
    /\ UNCHANGED OutsideAnalyze

\* the suppression filter applied to the list it returned
Refilter ==
    /\ analysis # None
    /\ refiltered = None
    /\ refiltered' = Some(suppression_filter(source.lines, analysis[1].issues))
    /\ UNCHANGED <<source, context, analysis, scanned>>
    /\ UNCHANGED OutsideAnalyze

NextAnalyze ==
    \/ \E stmt \in CallStmts : AppendLine(stmt, NoComment, MaxCallLines)
    \/ Analyze

SpecAnalyze == InitAnalyze /\ [][NextAnalyze]_vars

\* the same matches given to the handlers of create_handler, after the inline pass
HandleMatches ==
    /\ analysis # None
    /\ handled = None
    /\ handled' = Some([line \in 1..Len(source.lines) |-> handle_line(source, context, line)])
    /\ UNCHANGED AnalyzeVars
    /\ UNCHANGED <<DaoVars, TraceVars, MergeVars, ScanVars, SymbolVars, RunVars>>

NextHandler ==
    \/ \E stmt \in CallStmts : AppendLine(stmt, NoComment, MaxCallLines)
    \/ Analyze
    \/ HandleMatches

SpecHandler == InitAnalyze /\ [][NextHandler]_vars

\* the N_PLUS_ONE issues the inline branch pushed for a line
InlineAt(line) ==
    SelectSeq(analysis[1].raw,
              LAMBDA issue : issue.line = line /\ issue.id \in n_plus_one_rule_ids)

\* C29 (as claimed): NPlusOneHandler.handle returns an issue exactly when the inline
\* N_PLUS_ONE branch reports one for the same loop call and symbol table, and the two
\* issues carry the same rule id.
C29_HandlerRefinesInline ==
    handled # None =>
        \A line \in DOMAIN handled[1] :
            /\ handled[1][line] # None <=> InlineAt(line) # <<>>
            /\ (handled[1][line] # None /\ InlineAt(line) # <<>>)
                  => handled[1][line][1].id = InlineAt(line)[1].id


NextSupp ==
    \/ \E stmt \in SuppStmts, comment \in SuppComments :
          AppendLine(stmt, comment, MaxSourceLines)
    \/ Analyze
    \/ Refilter

SpecSupp == InitSupp /\ [][NextSupp]_vars

\* the number of issues of a list with the given id on the given line
CountAt(issues, id, line) ==
    Cardinality({i \in 1..Len(issues) : issues[i].id = id /\ issues[i].line = line})

\* the lines of the source holding a call directly in a loop body
LoopCallLines ==
    {line \in 1..Len(source.lines) :
        source.lines[line].stmt.kind = "call" /\ source.lines[line].stmt.loop \in Loops}

\* C2 (as claimed): without a symbol table, every call directly in a loop body whose
\* method name starts with a data-access verb (findBy, save, delete) produces exactly
\* one N_PLUS_ONE issue, whatever the receiver is named.
C2_VerbPrefixFlagged ==
    (analysis # None /\ context = None) =>
        \A line \in LoopCallLines :
            LET method == source.lines[line].stmt.method
            IN  (StartsWith(method, <<"f","i","n","d","B","y">>)
                    \/ StartsWith(method, S_save)
                    \/ StartsWith(method, <<"d","e","l","e","t","e">>))
                => CountAt(analysis[1].issues, "N_PLUS_ONE", line) = 1

\* the calls the heuristic mode reports: the method name starts with, or equals
\* ignoring ASCII case, one of the fixed patterns, or it starts with one of the
\* short verbs and the lower-cased receiver contains repo, dao, mapper or service
HeuristicReported(receiver, method) ==
    \/ \E i \in 1..Len(dao_patterns) :
          StartsWith(method, dao_patterns[i]) \/ to_lowercase(method) = to_lowercase(dao_patterns[i])
    \/ /\ \E i \in 1..Len(receiver_verbs) : StartsWith(method, receiver_verbs[i])
       /\ \E i \in 1..Len(receiver_keywords) :
             Contains(to_lowercase(receiver), receiver_keywords[i])

\* C2: without a symbol table, a call directly in a loop body produces exactly one
\* N_PLUS_ONE issue when the heuristic reports its receiver and method and none
\* otherwise; a call outside every loop, and System.out.println in a loop, produce none;
\* nothing else produces an N_PLUS_ONE issue.
C2_HeuristicExact ==
    (analysis # None /\ context = None) =>
        /\ \A line \in 1..Len(source.lines) :
              LET stmt == source.lines[line].stmt
              IN  CountAt(analysis[1].issues, "N_PLUS_ONE", line) =
                     IF line \in LoopCallLines /\ HeuristicReported(stmt.receiver, stmt.method)
                     THEN 1 ELSE 0
        /\ \A line \in LoopCallLines :
              source.lines[line].stmt.method = N_println =>
                  CountAt(analysis[1].issues, "N_PLUS_ONE", line) = 0
        /\ Len(analysis[1].issues) =
              Cardinality({line \in LoopCallLines :
                  HeuristicReported(source.lines[line].stmt.receiver,
                                    source.lines[line].stmt.method)})

\* C2 witness: a file with two loop calls, repo.save and System.out.println, was
\* analysed without a symbol table and exactly one issue came back.
C2_LoopCallsAnalysed ==
    /\ analysis # None
    /\ context = None
    /\ \E l1, l2 \in LoopCallLines :
          /\ source.lines[l1].stmt.receiver = N_repo /\ source.lines[l1].stmt.method = N_save
          /\ source.lines[l2].stmt.method = N_println
    /\ Len(analysis[1].issues) = 1

\* the lines with the call repo.findAll() directly in a loop body
RepoFindAllLines ==
    {line \in LoopCallLines :
        source.lines[line].stmt.receiver = N_repo /\ source.lines[line].stmt.method = N_findAll}

\* the symbol table has, for class OrderService, the field repo of type OrderRepository,
\* and OrderRepository registered as annotated @Repository
HasOrderRepositoryField(table) ==
    /\ <<N_OrderService, N_repo>> \in DOMAIN table.fields
    /\ table.fields[<<N_OrderService, N_repo>>].type_name = N_OrderRepository
    /\ N_OrderRepository \in DOMAIN table.classes
    /\ \E i \in 1..Len(table.classes[N_OrderRepository].annotations) :
          table.classes[N_OrderRepository].annotations[i] = S_Repository

FileListedIds ==
    UNION {source.lines[line].comment.ids :
              line \in {l \in 1..Len(source.lines) : source.lines[l].comment.kind = "file"}}

\* id is listed by an inline suppression comment on line `line`
InlineListed(id, line) ==
    /\ line \in 1..Len(source.lines)
    /\ source.lines[line].comment.kind = "inline"
    /\ id \in source.lines[line].comment.ids

\* id is listed by a next-line suppression comment on the line before `line`
NextLineListed(id, line) ==
    /\ (line - 1) \in 1..Len(source.lines)
    /\ source.lines[line - 1].comment.kind = "next_line"
    /\ id \in source.lines[line - 1].comment.ids

LineScoped(issue) == InlineListed(issue.id, issue.line) \/ NextLineListed(issue.id, issue.line)

\* issue is one of the elements of the list
IsIn(issue, issues) == \E i \in 1..Len(issues) : issues[i] = issue

RECURSIVE IsSubsequence(_, _)
\* a is b with some elements removed, the others in their order
IsSubsequence(a, b) ==
    IF a = <<>> THEN TRUE
    ELSE IF b = <<>> THEN FALSE
    ELSE IF Head(a) = Head(b) THEN IsSubsequence(Tail(a), Tail(b))
    ELSE IsSubsequence(a, Tail(b))

\* C10: filtering the filtered list again returns the same list, and the filtered list
\* is the list of the issues found with some of them removed, the others unchanged and
\* in their order.
C10_FilterIdempotent ==
    /\ analysis # None => IsSubsequence(analysis[1].issues, analysis[1].raw)
    /\ refiltered # None => refiltered[1] = analysis[1].issues

\* C10 witness: the filter removed one issue and kept another, and the kept list has
\* been filtered again.
C10_RefilteredAfterDrop ==
    /\ refiltered # None
    /\ analysis[1].issues # <<>>
    /\ Len(analysis[1].issues) < Len(analysis[1].raw)

\* ------------------------------------------- the merge of partial indexes as a state machine

MaxIndexFiles == 3

N_UserService == <<"U","s","e","r","S","e","r","v","i","c","e">>

N_UserRepository == <<"U","s","e","r","R","e","p","o","s","i","t","o","r","y">>

\* the classes the indexed files declare: two files may declare the same class name
IndexClasses == {"UserService", "UserRepository"}

\* the text of a class name and the annotation its declaration carries
ClassText ==
    [class_name \in IndexClasses |->
        IF class_name = "UserService" THEN N_UserService ELSE N_UserRepository]

ClassAnnotation ==
    [class_name \in IndexClasses |->
        IF class_name = "UserService" THEN S_Service ELSE S_Repository]

\* the method of each class that makes the calls of the file
CallerOf ==
    [class_name \in IndexClasses |->
        IF class_name = "UserService" THEN B_findAll ELSE C_findById]

\* the callees of the calls of one file, in source order
CallLists == {<<>>, <<B_findAll>>, <<C_findById>>, <<C_findById, C_findById>>}

RECURSIVE AddCalls(_, _, _, _, _)
\* add_call for each call of a file; the k-th call is on line 10 * k
AddCalls(g, caller, callees, k, file) ==
    IF k > Len(callees) THEN g
    ELSE AddCalls(add_call(g, caller, callees[k], file, 10 * k), caller, callees, k + 1, file)

\* the partial (Symbol Table, Call Graph) pair of one file declaring class_name
PartialIndex(class_name, callees, file) ==
    LET type_info == add_annotation(TypeInfo_new(ClassText[class_name]),
                                    ClassAnnotation[class_name])
    IN  [table |-> SymbolTable_register_class(SymbolTable_new, type_info),
         graph |-> AddCalls(CallGraph_register_class(CallGraph_new, class_name, file,
                                                     type_info.layer),
                            CallerOf[class_name], callees, 1, file)]

\* Phase 1 of one file: its partial pair joins the pool
IndexFile(class_name, callees) ==
    /\ indexed.files < MaxIndexFiles
    /\ pool' = Append(pool, PartialIndex(class_name, callees, <<class_name, indexed.files + 1>>))
    /\ indexed' = [files |-> indexed.files + 1,
                   calls |-> indexed.calls + Len(callees),
                   classes |-> indexed.classes \cup {ClassText[class_name]}]
    /\ UNCHANGED OutsideMerge

\* one pairwise merge of the reduction: the pairs at i and j become merge(pool[i], pool[j])
MergePair(i, j) ==
    /\ i \in 1..Len(pool) /\ j \in 1..Len(pool)
    /\ i # j
    /\ LET merged == [table |-> SymbolTable_merge(pool[i].table, pool[j].table),
                      graph |-> CallGraph_merge(pool[i].graph, pool[j].graph)]
           lo == IF i < j THEN i ELSE j
           hi == IF i < j THEN j ELSE i
       IN  pool' = [k \in 1..(Len(pool) - 1) |->
                       IF k = lo THEN merged
                       ELSE IF k < hi THEN pool[k] ELSE pool[k + 1]]
    /\ UNCHANGED indexed
    /\ UNCHANGED OutsideMerge

NextMerge ==
    \/ \E class_name \in IndexClasses, callees \in CallLists : IndexFile(class_name, callees)
    \/ \E i \in 1..MaxIndexFiles, j \in 1..MaxIndexFiles : MergePair(i, j)

InitMerge ==
    DaoIdle /\ TraceIdle /\ HandlerIdle /\ AnalyzeIdle /\ MergeIdle /\ ScanIdle /\ SymbolIdle

SpecMerge == InitMerge /\ [][NextMerge]_vars

RECURSIVE PoolOutgoing(_, _)
\* the call sites listed in the outgoing maps of the pairs k.. of the pool
PoolOutgoing(pairs, k) ==
    IF k > Len(pairs) THEN 0
    ELSE TotalCallSites(pairs[k].graph.outgoing) + PoolOutgoing(pairs, k + 1)

RECURSIVE PoolIncoming(_, _)
\* the call sites listed in the incoming maps of the pairs k.. of the pool
PoolIncoming(pairs, k) ==
    IF k > Len(pairs) THEN 0
    ELSE TotalCallSites(pairs[k].graph.incoming) + PoolIncoming(pairs, k + 1)

\* the class names that are keys of a symbol table of the pool
PoolClassNames == UNION {DOMAIN pool[k].table.classes : k \in 1..Len(pool)}

MaxScanFiles == 2

S_java == <<"j", "a", "v", "a">>

P_Clean_java == <<"C", "l", "e", "a", "n", ".", "j", "a", "v", "a">>

P_Locked_java == <<"L", "o", "c", "k", "e", "d", ".", "j", "a", "v", "a">>

P_README_md == <<"R", "E", "A", "D", "M", "E", ".", "m", "d">>

\* Path::extension: the text after the last dot of the file name, "" without one
extension(path) ==
    LET dots == {i \in 2..Len(path) : path[i] = "."}
    IN  IF dots = {} THEN <<>>
        ELSE SubSeq(path, (CHOOSE i \in dots : \A j \in dots : j <= i) + 1, Len(path))

CodeLine(stmt) == [stmt |-> stmt, comment |-> NoComment]

P_Garbled_java == <<"G", "a", "r", "b", "l", "e", "d", ".", "j", "a", "v", "a">>

\* the files a scanned directory may hold: `readable` is whether read_to_string succeeds,
\* `parseable` whether parser.parse returns a tree
ScanFiles ==
    { [path |-> P_OrderService_java, readable |-> TRUE, parseable |-> TRUE,
       lines |-> <<CodeLine(CallStmt("for", N_repo, N_findAll))>>],
      [path |-> P_Batch_java, readable |-> TRUE, parseable |-> TRUE,
       lines |-> <<CodeLine(FinalizeStmt), CodeLine(SyncBlockStmt)>>],
      [path |-> P_Clean_java, readable |-> TRUE, parseable |-> TRUE,
       lines |-> <<CodeLine(NoStmt)>>],
      [path |-> P_Locked_java, readable |-> FALSE, parseable |-> TRUE,
       lines |-> <<CodeLine(FinalizeStmt)>>],
      [path |-> P_Garbled_java, readable |-> TRUE, parseable |-> FALSE,
       lines |-> <<CodeLine(FinalizeStmt)>>],
      [path |-> P_README_md, readable |-> TRUE, parseable |-> TRUE,
       lines |-> <<CodeLine(NoStmt)>>] }

\* scan_source_code(code, file_path): the regex issues, then the syntax-tree issues;
\* the report lists every one of them
scan_source_code(code) ==
    IF extension(code.path) = S_java
    THEN analyze_java_code(code) \o MapSeq(analyze(code), convert_issue)
    ELSE <<>>

\* the threads of the rayon pool
NumWorkers == 2

Workers == 1..NumWorkers

\* the sets of rules whose query the grammar of the build may reject
BrokenQueries == {{}, {"SYNC_BLOCK"}}

NotCalled == [called |-> FALSE, ctx |-> None, worker |-> 0, catalog |-> None, parser |-> None]

\* WalkDir::new(path).into_iter().filter_map(|e| e.ok()).filter(is_file).collect():
\* the error of a root that cannot be listed is dropped with the other errors
WalkDir_files(root, files) == IF root = "missing" THEN <<>> ELSE files

\* compile_rules: the compiled catalog, or the error of the first query that fails
compile_rules(broken) ==
    IF \E k \in 1..Len(CompiledRules) : CompiledRules[k].id \in broken
    THEN None
    ELSE Some(CompiledRules)

\* JavaTreeSitterAnalyzer::new: Ok(the analyzer, here its catalog) or Err
JavaTreeSitterAnalyzer_new(broken) == compile_rules(broken)

\* a parser made for every call, instead of the one of the thread
with_parser_fresh(cell, thread) ==
    [parser |-> Some([thread |-> thread, serial |-> cell.created + 1]),
     created |-> cell.created + 1]

\* with_parser: the JAVA_PARSER cell of the calling thread, initialised on first use
with_parser(cell, thread) ==
    IF cell.parser = None
    THEN [parser |-> Some([thread |-> thread, serial |-> cell.created + 1]),
          created |-> cell.created + 1]
    ELSE cell

\* the content of a file analysed although read_to_string failed
local_issues_unchecked_read(entry, broken) ==
    LET code == [path |-> entry.path, lines |-> entry.lines]
    IN  IF extension(entry.path) # S_java THEN <<>>
        ELSE analyze_java_code(code) \o
             (IF JavaTreeSitterAnalyzer_new(broken) # None /\ entry.parseable
              THEN MapSeq(analyze(code), convert_issue)
              ELSE <<>>)

\* the closure of par_iter().for_each for one entry: its local_issues
local_issues_of(entry, broken) ==
    LET code == [path |-> entry.path, lines |-> entry.lines]
    IN  IF extension(entry.path) # S_java \/ ~entry.readable THEN <<>>
        ELSE analyze_java_code(code) \o
             (IF JavaTreeSitterAnalyzer_new(broken) # None /\ entry.parseable
              THEN MapSeq(analyze(code), convert_issue)
              ELSE <<>>)

\* Vec::extend, one element of the iterator: push
Vec_push(global, issue) == Append(global, issue)

\* a lock that is granted whoever holds it
Mutex_ignored(lock) == TRUE

\* Mutex::lock: granted when no thread holds the mutex
Mutex_free(lock) == lock = 0

\* every P1 issue listed
Take_all(seq, n) == seq

\* Iterator::take
Take(seq, n) == SubSeq(seq, 1, IF n < Len(seq) THEN n ELSE Len(seq))

\* radar_scan up to the parallel loop: the entries are collected, nothing is analysed
Init ==
    /\ DaoIdle /\ TraceIdle /\ HandlerIdle /\ AnalyzeIdle /\ MergeIdle /\ SymbolIdle
    /\ scanRoot \in {"listed", "missing"}
    /\ scanBroken \in BrokenQueries
    /\ scanEntries \in
          {WalkDir_files(scanRoot, files) :
              files \in UNION {[1..n -> ScanFiles] : n \in 0..MaxScanFiles}}
    /\ scanPc = [i \in DOMAIN scanEntries |-> "pending"]
    /\ scanLocal = [i \in DOMAIN scanEntries |-> <<>>]
    /\ scanContext = [i \in DOMAIN scanEntries |-> NotCalled]
    /\ scanWorker = [w \in Workers |-> 0]
    /\ scanParser = [w \in Workers |-> [parser |-> None, created |-> 0]]
    /\ scanCompiles = 0
    /\ scanLock = 0
    /\ scanAppended = [w \in Workers |-> 0]
    /\ scanIssues = <<>>
    /\ scanReport = None

\* the closure of par_iter().for_each for entry i on thread w, up to the lock
ScanFile(w, i) ==
    /\ w \in Workers
    /\ i \in DOMAIN scanEntries
    /\ scanPc[i] = "pending"
    /\ scanWorker[w] = 0
    /\ LET entry == scanEntries[i]
           read == extension(entry.path) = S_java /\ entry.readable
           analyzer == IF read THEN JavaTreeSitterAnalyzer_new(scanBroken) ELSE None
           cell == IF analyzer # None THEN with_parser(scanParser[w], w) ELSE scanParser[w]
           local_issues == local_issues_of(entry, scanBroken)
       IN  /\ scanLocal' = [scanLocal EXCEPT ![i] = local_issues]
           /\ scanCompiles' = IF read THEN scanCompiles + 1 ELSE scanCompiles
           /\ scanParser' = [scanParser EXCEPT ![w] = cell]
           /\ scanContext' = [scanContext EXCEPT ![i] =
                  IF read
                  THEN [called |-> TRUE, ctx |-> None, worker |-> w,
                        catalog |-> IF analyzer # None THEN Some(scanCompiles + 1) ELSE None,
                        parser |-> IF analyzer # None THEN cell.parser ELSE None]
                  ELSE [NotCalled EXCEPT !.worker = w]]
           /\ scanPc' = [scanPc EXCEPT ![i] = IF local_issues # <<>> THEN "locking" ELSE "done"]
           /\ scanWorker' = [scanWorker EXCEPT ![w] = IF local_issues # <<>> THEN i ELSE 0]
    /\ UNCHANGED <<scanRoot, scanBroken, scanEntries, scanLock, scanAppended, scanIssues,
                   scanReport>>
    /\ UNCHANGED OutsideScan

\* the closure on thread w: issues.lock()
Lock(w) ==
    /\ w \in Workers
    /\ scanWorker[w] # 0
    /\ scanPc[scanWorker[w]] = "locking"
    /\ Mutex_free(scanLock)
    /\ scanLock' = w
    /\ scanPc' = [scanPc EXCEPT ![scanWorker[w]] = "locked"]
    /\ UNCHANGED <<scanRoot, scanBroken, scanEntries, scanLocal, scanContext, scanWorker,
                   scanParser, scanCompiles, scanAppended, scanIssues, scanReport>>
    /\ UNCHANGED OutsideScan

\* the closure on thread w, under the lock: global.extend(local_issues) pushes the next
\* issue of the list; after the last one the guard is dropped and the closure returns
ExtendGlobal(w) ==
    /\ w \in Workers
    /\ scanWorker[w] # 0
    /\ scanPc[scanWorker[w]] = "locked"
    /\ LET local_issues == scanLocal[scanWorker[w]]
           pushed == scanAppended[w] + 1
       IN  /\ scanIssues' = Vec_push(scanIssues, local_issues[pushed])
           /\ IF pushed < Len(local_issues)
              THEN /\ scanAppended' = [scanAppended EXCEPT ![w] = pushed]
                   /\ UNCHANGED <<scanPc, scanWorker, scanLock>>
              ELSE /\ scanAppended' = [scanAppended EXCEPT ![w] = 0]
                   /\ scanPc' = [scanPc EXCEPT ![scanWorker[w]] = "done"]
                   /\ scanWorker' = [scanWorker EXCEPT ![w] = 0]
                   /\ scanLock' = 0
    /\ UNCHANGED <<scanRoot, scanBroken, scanEntries, scanLocal, scanContext, scanParser,
                   scanCompiles, scanReport>>
    /\ UNCHANGED OutsideScan

\* radar_scan after the parallel loop: the counts and the issues the report lists
Report(compact, max_p1) ==
    /\ scanReport = None
    /\ \A i \in DOMAIN scanPc : scanPc[i] = "done"
    /\ LET p0 == SelectSeq(scanIssues, LAMBDA issue : issue.severity = "P0")
           p1 == SelectSeq(scanIssues, LAMBDA issue : issue.severity = "P1")
       IN  scanReport' = Some([ok |-> TRUE,
                               compact |-> compact,
                               max_p1 |-> max_p1,
                               file_count |-> Len(scanEntries),
                               total |-> Len(scanIssues),
                               p0_count |-> Len(p0),
                               p1_count |-> Len(p1),
                               listed |-> IF compact THEN p0 ELSE p0 \o Take(p1, max_p1)])
    /\ UNCHANGED <<scanRoot, scanBroken, scanEntries, scanPc, scanLocal, scanContext,
                   scanWorker, scanParser, scanCompiles, scanLock, scanAppended, scanIssues>>
    /\ UNCHANGED OutsideScan

Next ==
    \/ \E w \in 1..NumWorkers, i \in 1..MaxScanFiles : ScanFile(w, i)
    \/ \E w \in 1..NumWorkers : Lock(w)
    \/ \E w \in 1..NumWorkers : ExtendGlobal(w)
    \/ \E compact \in BOOLEAN, max_p1 \in 0..MaxScanFiles : Report(compact, max_p1)

Spec == Init /\ [][Next]_vars

\* C1 (as claimed): the rule analysis of a Java file starts only after every Java file
\* has been indexed and the partial pairs merged, and reads that complete global
\* context: whenever the analyzer has run for a file of the scan, it was given a symbol
\* table.
C1_AnalysisReadsGlobalContext ==
    \A i \in DOMAIN scanEntries : scanContext[i].called => scanContext[i].ctx # None

\* the number of issues of a list with the given severity
CountSeverity(issues, severity) ==
    Cardinality({k \in 1..Len(issues) : issues[k].severity = severity})

\* the issues of a list with the given severity, in their order
OfSeverity(issues, severity) == SelectSeq(issues, LAMBDA issue : issue.severity = severity)

Min(a, b) == IF a < b THEN a ELSE b

\* C13: the report agrees with the collected issues: its P0 and P1 counts are the
\* numbers of collected issues of each severity; compact mode lists every P0 issue and
\* no P1 issue; full mode lists every P0 issue and exactly min(P1 count, max_p1) P1
\* issues.
C13_ReportConsistent ==
    scanReport # None =>
        LET report == scanReport[1]
        IN  /\ report.p0_count = CountSeverity(scanIssues, "P0")
            /\ report.p1_count = CountSeverity(scanIssues, "P1")
            /\ OfSeverity(report.listed, "P0") = OfSeverity(scanIssues, "P0")
            /\ report.compact => CountSeverity(report.listed, "P1") = 0
            /\ ~report.compact =>
                  CountSeverity(report.listed, "P1") = Min(report.p1_count, report.max_p1)

\* a full report that had to cut the P1 issues, next to P0 issues
C13_FullReportCutsP1 ==
    /\ scanReport # None
    /\ ~scanReport[1].compact
    /\ scanReport[1].p0_count > 0
    /\ scanReport[1].max_p1 > 0
    /\ scanReport[1].p1_count > scanReport[1].max_p1

\* the entries whose closure has run up to the merge
Processed == {i \in DOMAIN scanEntries : scanPc[i] # "pending"}

IsJava(entry) == extension(entry.path) = S_java

Unreadable(entry) == IsJava(entry) /\ ~entry.readable

Unparseable(entry) == IsJava(entry) /\ entry.readable /\ ~entry.parseable

CodeOf(entry) == [path |-> entry.path, lines |-> entry.lines]

FailedEntries ==
    {i \in DOMAIN scanEntries : Unreadable(scanEntries[i]) \/ Unparseable(scanEntries[i])}

\* C15 (as claimed): the file count of the report counts only the successfully
\* processed files: N candidate files of which M could not be read or parsed are
\* reported as N - M files.
C15_FileCountSuccessful ==
    scanReport # None =>
        scanReport[1].file_count = Len(scanEntries) - Cardinality(FailedEntries)

\* C16 (as claimed): when the target path cannot be enumerated at all, the scan returns
\* a scan-level failure instead of a successful report.
C16_MissingRootFails ==
    (scanRoot = "missing" /\ scanReport # None) => ~scanReport[1].ok

\* the entries that were read and parsed as Java
AnalysableEntries ==
    {i \in Processed :
        /\ IsJava(scanEntries[i])
        /\ scanEntries[i].readable
        /\ scanEntries[i].parseable}

\* C17 (as claimed): when the query of one rule fails to compile, only that rule is
\* dropped: the analyzer is still constructed, and every other rule of the catalog
\* still produces its issues in the scan.
C17_OnlyBrokenRuleDropped ==
    Cardinality(scanBroken) = 1 =>
        \A i \in AnalysableEntries :
            LET found == analyze(CodeOf(scanEntries[i]))
            IN  /\ scanContext[i].catalog # None
                /\ \A k \in 1..Len(found) :
                      found[k].id \notin scanBroken =>
                          \E n \in 1..Len(scanLocal[i]) :
                              scanLocal[i][n] = convert_issue(found[k])

\* the entries for which with_parser ran on thread w
ParsedBy(w) ==
    {i \in DOMAIN scanEntries : scanContext[i].worker = w /\ scanContext[i].parser # None}

\* C18: each worker thread constructs at most one parser: it is created on the first
\* parse of the thread and not before, every parse of the thread uses it, and no
\* parse uses the parser of another thread.
C18_OneParserPerThread ==
    \A w \in Workers :
        /\ scanParser[w].created <= 1
        /\ scanParser[w].created = 1 <=> ParsedBy(w) # {}
        /\ \A i \in ParsedBy(w) :
              /\ scanContext[i].parser = scanParser[w].parser
              /\ scanContext[i].parser[1].thread = w

\* one thread has parsed two files
C18_ThreadParsedTwoFiles ==
    \E w \in Workers : Cardinality(ParsedBy(w)) >= 2

\* the entries analysed with a compiled catalog
WithCatalog == {i \in DOMAIN scanEntries : scanContext[i].catalog # None}

\* C19 (as claimed): the compiled rule catalog is built once and shared: every file of
\* a directory scan is analysed with the same compiled catalog, which is not rebuilt
\* while files are being analysed.
C19_CatalogBuiltOnce ==
    /\ scanCompiles <= 1
    /\ \A i, j \in WithCatalog : scanContext[i].catalog = scanContext[j].catalog

\* the entries whose issues have been merged
Merged == {i \in DOMAIN scanEntries : scanPc[i] = "done" /\ scanLocal[i] # <<>>}

\* the orders in which the entries of a set may have been merged
Orders(set) ==
    {order \in [1..Cardinality(set) -> set] :
        \A a, b \in 1..Cardinality(set) : order[a] = order[b] => a = b}

RECURSIVE ConcatLocal(_, _)
ConcatLocal(order, k) ==
    IF k > Len(order) THEN <<>> ELSE scanLocal[order[k]] \o ConcatLocal(order, k + 1)

\* the part of its list the thread holding the lock has pushed so far
BeingAppended ==
    IF scanLock = 0 THEN <<>>
    ELSE SubSeq(scanLocal[scanWorker[scanLock]], 1, scanAppended[scanLock])

\* C20: under every interleaving the issue list is the per-file lists of the merged
\* files, each whole and exactly once, one after the other in the order of the merges,
\* followed by what the thread holding the lock has appended of its list; the lock is
\* held only by a thread that is appending the list of one file.
C20_IssuesAreWholeLists ==
    /\ scanLock # 0 =>
          /\ scanWorker[scanLock] # 0
          /\ scanPc[scanWorker[scanLock]] = "locked"
    /\ \A i \in DOMAIN scanEntries :
          scanPc[i] = "locked" => (scanLock # 0 /\ scanWorker[scanLock] = i)
    /\ \E order \in Orders(Merged) : scanIssues = ConcatLocal(order, 1) \o BeingAppended

\* a finished scan in which the list of a later entry was merged before the different
\* list of an earlier one
C20_LaterFileMergedFirst ==
    /\ scanReport # None
    /\ \E i, j \in DOMAIN scanEntries :
          /\ i < j
          /\ scanLocal[i] # <<>>
          /\ scanLocal[j] # <<>>
          /\ scanLocal[i] # scanLocal[j]
          /\ scanIssues = scanLocal[j] \o scanLocal[i]

\* ------------------------------------------- catch clauses and the single-file scan

MaxCatchLines == 2

T_printStackTrace == <<"e", ".", "p", "r", "i", "n", "t", "S", "t", "a", "c", "k", "T", "r", "a", "c", "e", "(", ")", ";">>

T_println == <<"S", "y", "s", "t", "e", "m", ".", "o", "u", "t", ".", "p", "r", "i", "n", "t", "l", "n", "(", "e", ")", ";">>

T_recover == <<"r", "e", "c", "o", "v", "e", "r", "(", "e", ")", ";">>

\* the statements of a catch block that only print the exception
PrintStatements == {T_printStackTrace, T_println}

CatchBodies ==
    { <<>>, <<T_printStackTrace>>, <<T_println>>, <<T_recover>>,
      <<T_recover, T_printStackTrace>> }

CatchStmts == {NoStmt} \cup {CatchStmt(body) : body \in CatchBodies}

ScanSourceCode ==
    /\ scanned = None
    /\ scanned' = Some(scan_source_code(source))
    /\ UNCHANGED <<source, context, analysis, refiltered>>
    /\ UNCHANGED OutsideAnalyze

InitCatch == InitSupp

NextCatch ==
    \/ \E stmt \in CatchStmts : AppendLine(stmt, NoComment, MaxCatchLines)
    \/ Analyze
    \/ ScanSourceCode

SpecCatch == InitCatch /\ [][NextCatch]_vars

\* the lines of the source holding a catch clause
CatchLines == {line \in 1..Len(source.lines) : source.lines[line].stmt.kind = "catch"}

OnlyPrints(body) == body # <<>> /\ \A i \in 1..Len(body) : body[i] \in PrintStatements

RealHandling(body) == \E i \in 1..Len(body) : body[i] \notin PrintStatements

\* C11 (as claimed): every catch block whose body is empty or holds only print
\* statements gets one EMPTY_CATCH issue at its line, and a catch block with a real
\* handling statement gets none, even when it also prints.
C11_EmptyCatchExact ==
    analysis # None =>
        \A line \in CatchLines :
            LET body == source.lines[line].stmt.body
            IN  /\ (body = <<>> \/ OnlyPrints(body)) =>
                      CountAt(analysis[1].issues, "EMPTY_CATCH", line) = 1
                /\ RealHandling(body) =>
                      CountAt(analysis[1].issues, "EMPTY_CATCH", line) = 0

\* the source holds one empty catch clause and nothing else of interest
OnlyOneEmptyCatch ==
    /\ Cardinality(CatchLines) = 1
    /\ \A line \in 1..Len(source.lines) :
          \/ source.lines[line].stmt = NoStmt
          \/ source.lines[line].stmt = CatchStmt(<<>>)

\* C12 (as claimed): the scan of a Java file whose only anti-pattern is one empty
\* catch block lists exactly one issue, of the empty-catch family and of severity P0.
C12_OneEmptyCatchIssue ==
    (scanned # None /\ OnlyOneEmptyCatch) =>
        /\ Len(scanned[1]) = 1
        /\ scanned[1][1].issue_type \in {"EMPTY_CATCH", "EXCEPTION_IGNORE"}
        /\ scanned[1][1].severity = "P0"

\* ------------------------------------------------- TypeInfo as a state machine

MaxAnnotations == 2

S_Autowired == <<"A", "u", "t", "o", "w", "i", "r", "e", "d">>

\* the marker annotations a declaration may carry; Autowired names no layer
MarkerAnnotations == {S_Controller, S_Service, S_Repository, S_Autowired}

InitLayer ==
    /\ DaoIdle /\ TraceIdle /\ HandlerIdle /\ AnalyzeIdle /\ MergeIdle /\ ScanIdle
    /\ typeA = TypeInfo_new(N_OrderRepository)
    /\ typeB = TypeInfo_new(N_OrderRepository)
    /\ methodTable = [methods |-> EmptyMap, method_index |-> EmptyMap]
    /\ registered = <<>>
    /\ methodQuery = None
    /\ ExtractIdle

\* info.add_annotation(annotation) on the first TypeInfo
AddAnnotationA(annotation) ==
    /\ Len(typeA.annotations) < MaxAnnotations
    /\ typeA' = add_annotation(typeA, annotation)
    /\ UNCHANGED <<typeB, MethodVars, ExtractVars>>
    /\ UNCHANGED OutsideSymbols

\* info.add_annotation(annotation) on the second TypeInfo
AddAnnotationB(annotation) ==
    /\ Len(typeB.annotations) < MaxAnnotations
    /\ typeB' = add_annotation(typeB, annotation)
    /\ UNCHANGED <<typeA, MethodVars, ExtractVars>>
    /\ UNCHANGED OutsideSymbols

NextLayer ==
    \/ \E annotation \in MarkerAnnotations : AddAnnotationA(annotation)
    \/ \E annotation \in MarkerAnnotations : AddAnnotationB(annotation)

SpecLayer == InitLayer /\ [][NextLayer]_vars

\* the set of the annotations of a TypeInfo
AnnotationSet(info) == {info.annotations[k] : k \in 1..Len(info.annotations)}

\* the annotations of a TypeInfo that name a layer, in their order
Recognized(info) ==
    SelectSeq(info.annotations, LAMBDA a : from_annotation(a) # "Unknown")

\* C21 (as claimed): the layer of a TypeInfo does not depend on the order of the
\* add_annotation calls: two TypeInfos given the same set of annotations have the same
\* layer, and an unrecognized annotation never changes the layer.
C21_LayerOrderIndependent ==
    /\ AnnotationSet(typeA) = AnnotationSet(typeB) => typeA.layer = typeB.layer
    /\ typeA.layer = AddAnnotations(TypeInfo_new(typeA.name), Recognized(typeA)).layer

\* ------------------------------------------ the method index as a state machine

MaxRegistrations == 2

T_Long == <<"L", "o", "n", "g">>

T_String == <<"S", "t", "r", "i", "n", "g">>

IndexedMethodNames == {N_findById, N_save}

ParamTypeLists == {<<>>, <<T_Long>>, <<T_String>>}

\* the declaration lines of the methods: a signature may be declared on either
MethodLines == {10, 15}

MethodInfos ==
    {MethodInfo_new(name, N_OrderRepository, types, line) :
        name \in IndexedMethodNames, types \in ParamTypeLists, line \in MethodLines}

MethodSignatures == {signature(info) : info \in MethodInfos}

InitMethods ==
    /\ DaoIdle /\ TraceIdle /\ HandlerIdle /\ AnalyzeIdle /\ MergeIdle /\ ScanIdle
    /\ typeA = TypeInfo_new(<<>>)
    /\ typeB = TypeInfo_new(<<>>)
    /\ methodTable = [methods |-> EmptyMap, method_index |-> EmptyMap]
    /\ registered = <<>>
    /\ methodQuery = None
    /\ ExtractIdle

\* table.register_method(class, info)
RegisterMethod(info) ==
    /\ methodQuery = None
    /\ Len(registered) < MaxRegistrations
    /\ methodTable' = register_method(methodTable, info.class, info)
    /\ registered' = Append(registered, info)
    /\ UNCHANGED <<typeA, typeB, methodQuery, ExtractVars>>
    /\ UNCHANGED OutsideSymbols

\* table.lookup_methods(class, name)
LookupMethods(name) ==
    /\ methodQuery = None
    /\ methodQuery' = Some([kind |-> "by_name", key |-> name,
                            result |-> lookup_methods(methodTable, N_OrderRepository, name)])
    /\ UNCHANGED <<typeA, typeB, methodTable, registered, ExtractVars>>
    /\ UNCHANGED OutsideSymbols

\* table.lookup_method_by_sig(class, sig)
LookupMethodBySig(sig) ==
    /\ methodQuery = None
    /\ methodQuery' = Some([kind |-> "by_sig", key |-> sig,
                            result |-> lookup_method_by_sig(methodTable, N_OrderRepository, sig)])
    /\ UNCHANGED <<typeA, typeB, methodTable, registered, ExtractVars>>
    /\ UNCHANGED OutsideSymbols

NextMethods ==
    \/ \E info \in MethodInfos : RegisterMethod(info)
    \/ \E name \in IndexedMethodNames : LookupMethods(name)
    \/ \E sig \in MethodSignatures : LookupMethodBySig(sig)

SpecMethods == InitMethods /\ [][NextMethods]_vars

\* the register_method calls, by position, made with the given name / signature
RegisteredNamed(name) == {k \in 1..Len(registered) : registered[k].name = name}

RegisteredWithSig(sig) == {k \in 1..Len(registered) : signature(registered[k]) = sig}

\* C22 (as claimed): lookup_methods(class, name) returns exactly one MethodInfo for each
\* distinct signature registered under (class, name), also when a signature was
\* registered more than once, and lookup_method_by_sig(class, sig) returns the method
\* last registered with exactly that signature.
C22_OnePerSignature ==
    methodQuery # None =>
        LET q == methodQuery[1]
        IN  /\ q.kind = "by_name" =>
                  LET sigs == {signature(registered[k]) : k \in RegisteredNamed(q.key)}
                  IN  /\ Len(q.result) = Cardinality(sigs)
                      /\ \A sig \in sigs :
                            Cardinality({n \in 1..Len(q.result) :
                                            signature(q.result[n]) = sig}) = 1
            /\ q.kind = "by_sig" =>
                  LET calls == RegisteredWithSig(q.key)
                  IN  IF calls = {} THEN q.result = None
                      ELSE q.result =
                              Some(registered[CHOOSE k \in calls : \A j \in calls : j <= k])

\* ------------------------------------------- the structural extraction of one file

\* compile_structure_query: the captures of the structure query, in their order
structure_captures ==
    <<"class_name", "class_ann", "iface_name", "iface_ann",
      "field_ann", "field_type", "field_name">>

\* Query::capture_index_for_name
capture_index_for_name(name) ==
    IF \E k \in 1..Len(structure_captures) : structure_captures[k] = name
    THEN Some(CHOOSE k \in 1..Len(structure_captures) : structure_captures[k] = name)
    ELSE None

\* Option::or_else: the alternative is taken only when the option is None
or_else(option, alternative) == IF option # None THEN option ELSE alternative

Capture(name, text) == [index |-> capture_index_for_name(name)[1], text |-> text]

\* query_cursor.matches: the matches of the structure query on the tree of a file. A
\* class declaration is captured as class_name / class_ann, an interface declaration
\* as iface_name / iface_ann, a field declaration as field_type / field_name.
structure_matches(file) ==
    LET name_capture == IF file.kind = "class" THEN "class_name" ELSE "iface_name"
        ann_capture == IF file.kind = "class" THEN "class_ann" ELSE "iface_ann"
        declaration ==
            IF file.annotations = <<>>
            THEN << <<Capture(name_capture, file.name)>> >>
            ELSE [k \in 1..Len(file.annotations) |->
                     <<Capture(name_capture, file.name),
                       Capture(ann_capture, file.annotations[k])>>]
        fields ==
            [k \in 1..Len(file.fields) |->
                <<Capture("field_type", file.fields[k].type_name),
                  Capture("field_name", file.fields[k].name)>>]
    IN  declaration \o fields

RECURSIVE NameCaptures(_, _, _)
\* for capture in m.captures: the first capture of the name index makes the TypeInfo
NameCaptures(captures, idx, type_info) ==
    IF captures = <<>> THEN type_info
    ELSE NameCaptures(Tail(captures), idx,
             IF Head(captures).index = idx /\ type_info = None
             THEN Some(TypeInfo_new(Head(captures).text))
             ELSE type_info)

RECURSIVE AnnotationCaptures(_, _, _)
\* for capture in m.captures: every capture of the annotation index is added
AnnotationCaptures(captures, idx, type_info) ==
    IF captures = <<>> THEN type_info
    ELSE AnnotationCaptures(Tail(captures), idx,
             IF Head(captures).index = idx /\ type_info # None
             THEN Some(add_annotation(type_info[1], Head(captures).text))
             ELSE type_info)

RECURSIVE LastText(_, _)
\* for capture in m.captures: the text of the last capture of the index, "" without one
LastText(captures, idx) ==
    IF captures = <<>> THEN <<>>
    ELSE IF captures[Len(captures)].index = idx THEN captures[Len(captures)].text
    ELSE LastText(SubSeq(captures, 1, Len(captures) - 1), idx)

RECURSIVE ExtractMatches(_, _)
\* extract_symbols_from_tree: for m in matches
ExtractMatches(matches, acc) ==
    IF matches = <<>> THEN acc
    ELSE LET m == Head(matches)
             name_idx == or_else(capture_index_for_name("class_name"),
                                 capture_index_for_name("iface_name"))
             ann_idx == or_else(capture_index_for_name("class_ann"),
                                capture_index_for_name("iface_ann"))
             named == IF name_idx # None
                      THEN NameCaptures(m, name_idx[1], acc.type_info)
                      ELSE acc.type_info
             annotated == IF ann_idx # None
                          THEN AnnotationCaptures(m, ann_idx[1], named)
                          ELSE named
             field_name_idx == capture_index_for_name("field_name")
             field_type_idx == capture_index_for_name("field_type")
             f_name == LastText(m, field_name_idx[1])
             f_type == LastText(m, field_type_idx[1])
             bindings == IF field_name_idx # None /\ field_type_idx # None /\ f_name # <<>>
                         THEN Append(acc.bindings, VarBinding_new(f_name, f_type, TRUE))
                         ELSE acc.bindings
         IN  ExtractMatches(Tail(matches), [type_info |-> annotated, bindings |-> bindings])

\* extract_symbols_from_tree
extract_symbols_from_tree(file) ==
    ExtractMatches(structure_matches(file), [type_info |-> None, bindings |-> <<>>])

DeclarationKinds == {"class", "interface"}

AnnotationSeqs == UNION {[1..n -> MarkerAnnotations] : n \in 0..MaxAnnotations}

FieldLists == {<<>>, <<[name |-> N_repo, type_name |-> N_OrderRepository]>>}

ParsedFiles ==
    {[kind |-> kind, name |-> name, annotations |-> annotations, fields |-> fields] :
        kind \in DeclarationKinds, name \in {N_OrderRepository, N_OrderService},
        annotations \in AnnotationSeqs, fields \in FieldLists}

InitExtract ==
    /\ DaoIdle /\ TraceIdle /\ HandlerIdle /\ AnalyzeIdle /\ MergeIdle /\ ScanIdle
    /\ typeA = TypeInfo_new(<<>>)
    /\ typeB = TypeInfo_new(<<>>)
    /\ methodTable = [methods |-> EmptyMap, method_index |-> EmptyMap]
    /\ registered = <<>>
    /\ methodQuery = None
    /\ parsedFile \in ParsedFiles
    /\ extracted = None

\* extract_symbols(code, file_path) on the parsed file
ExtractSymbols ==
    /\ extracted = None
    /\ extracted' = Some(extract_symbols_from_tree(parsedFile))
    /\ UNCHANGED <<typeA, typeB, MethodVars, parsedFile>>
    /\ UNCHANGED OutsideSymbols

NextExtract == ExtractSymbols

SpecExtract == InitExtract /\ [][NextExtract]_vars

\* C23 (as claimed): the structural extraction of a file whose declaration is an
\* interface returns a TypeInfo carrying the name of the interface and its marker
\* annotations, just as it does for a class declaration.
C23_InterfaceExtracted ==
    extracted # None =>
        /\ extracted[1].type_info # None
        /\ extracted[1].type_info[1].name = parsedFile.name
        /\ extracted[1].type_info[1].annotations = parsedFile.annotations

\* --------------------------------- scan_source_code on a file with suppression comments

NextScanSupp ==
    \/ \E stmt \in SuppStmts, comment \in SuppComments :
          AppendLine(stmt, comment, MaxSourceLines)
    \/ ScanSourceCode

SpecScanSupp == InitSupp /\ [][NextScanSupp]_vars

\* the issue is covered by a suppression comment of the file
Covered(lines, issue) ==
    LET suppression_ctx == SuppressionContext_parse(lines)
    IN  \/ is_file_suppressed(suppression_ctx)
        \/ is_suppressed(suppression_ctx, issue.issue_type, issue.line)

\* C25 (as claimed): every issue scan_source_code returns for a Java file has passed the
\* suppression filter, whichever detector produced it: no returned issue has an id and
\* line covered by a suppression comment of the file.
C25_ReturnedIssuesFiltered ==
    scanned # None =>
        \A k \in 1..Len(scanned[1]) : ~Covered(source.lines, scanned[1][k])

\* C30 (as claimed): a scan of one Java file never reports the same finding twice: no two
\* returned issues share both rule id and line, whichever detectors produced them.
C30_NoDuplicateFinding ==
    scanned # None =>
        \A j, k \in 1..Len(scanned[1]) :
            (scanned[1][j].issue_type = scanned[1][k].issue_type
                /\ scanned[1][j].line = scanned[1][k].line) => j = k

====
